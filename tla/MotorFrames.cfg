SPECIFICATION FramesSpec
CONSTANTS
  CtrlRequests <- Ctrl
  PositionRequests <- Position
  SpeedRequests <- Speed
  CurTorRequests <- CurTor
  AccRequests <- Acc
  PairRequests <- Pair
  MaxCalls = 2
INVARIANTS CtrlArrives RequestsArrive
