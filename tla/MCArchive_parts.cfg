\* Each part of the archive access on a small instance.
SPECIFICATION PartSpec
INVARIANTS PartTypeOK IndexAnswers LookupsAgree RequestsRight RateKept ReadsExact
PROPERTIES PermitsSpaced Settles
