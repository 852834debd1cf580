SPECIFICATION Spec
CONSTANTS
  CPUs = {c1, c2}
  NoCpu = NoCpu
  Readers = {c1}
  Writers = {c2}
  INPUT_BUF_SIZE = 2
  UART_TX_BUF_SIZE = 1
  UINT = 4
  UINT64 = 3
  RXFIFO = 1
  TXFIFO = 2
  MAXN = 2
INVARIANTS
  
  
  OutputAndSleepersMove
