SPECIFICATION LiveSpec
CONSTANTS
  UIP_CONNS = 2
  UIP_RTO = 1
  UIP_MAXRTX = 3
  UIP_MAXSYNRTX = 1
  UIP_TIME_WAIT_TIMEOUT = 1
  PORT_INIT = 0
  PORT_RESTART = 1
  PORT_LIMIT = 4
  CONNECT_SPACING = 0
  GET_SPACING = 1
  CALLBACK_DELAY = 1
  Rtos = {1}
  UrgentPointers = {0}
  Capacity = 1
  MaxConnects = 4
  MaxAccepts = 1
  MaxRestarts = 1
  MaxGets = 0
  MaxData = 0
INVARIANTS TypeOK PortsDistinct
PROPERTIES AttemptsEnd
