SPECIFICATION MCSpec
CONSTANTS
  CountMod = 3
  PscMod = 4
  Prescaler <- Prescalers
  CtrlValues <- Ctrls
  CountValues = {1}
  CompareValues = {0}
  Bytes = {0, 1}
  BaudValues = {0, 1}
  UartCtrls <- Controls
  Oversampling = 2
  TickMod = 4
  DataBits = 2
  Operands = {0, 1}
INVARIANTS TimerRate StatusIsTrue FrameTiming NeverAnswers
PROPERTIES ImplementsLine PinFollowsFlags
