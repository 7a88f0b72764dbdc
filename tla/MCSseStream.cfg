\* Every producer and client within a backstop of four events.
SPECIFICATION StreamSpec
CONSTANT MaxEvents = 4
CHECK_DEADLOCK FALSE
INVARIANTS
  OrderPreserved
  NothingSwallowed
PROPERTIES
  ProducerReleased
