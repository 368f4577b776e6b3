SPECIFICATION Spec
CONSTANTS
  UIP_CONNS = 1
  UIP_RTO = 1
  UIP_MAXRTX = 1
  UIP_MAXSYNRTX = 1
  UIP_TIME_WAIT_TIMEOUT = 1
  PORT_INIT = 0
  PORT_RESTART = 1
  PORT_LIMIT = 3
  CONNECT_SPACING = 0
  GET_SPACING = 1
  CALLBACK_DELAY = 1
  Rtos = {1}
  UrgentPointers = {0}
  Capacity = 2
  MaxConnects = 1
  MaxAccepts = 2
  MaxRestarts = 1
  MaxGets = 1
  MaxData = 0
INVARIANT SynchronizedWithServer
