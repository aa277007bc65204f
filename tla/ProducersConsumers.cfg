SPECIFICATION ProgramsSpec
CONSTANTS
  Producers = {p1, p2, p3}
  SomeProducers = {p1, p2}
  Consumers = {c1, c2}
  producer = p1
  consumer = c1
  MayBeIdle = {p1}
  Nobody = Nobody
  NBUFF = 2
  nitems = 4
INVARIANTS
  TypeOK
  NeverOverwrites
  ItemsInOrder
  Accounted
  SleepsOnlyOnNothing
PROPERTIES
  ImplementsFifo
  ManyImplementFifo
  NamesApart
  AllEnd
