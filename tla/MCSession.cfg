SPECIFICATION Spec
CONSTANTS
  Half <- MCHalf
  FixHalf = 8
  Types <- MCTypes
  Given <- MCGiven
  Answers <- MCAnswers
  Hosts = {h1, h2}
  Codes <- Failure
  Objects <- MCObjects
INVARIANTS TypeOK RunsOnlyWhenAsked ErrorsTell IntegersArrive OutputsTogether GoodReturned
