\* One connection, watched for three periods, two of them training
SPECIFICATION Spec
CONSTANTS
  master = master
  slave = slave
  wire = wire
  unit = unit
  read = read
  written = written
  answer = answer
  poll = poll
  reply = reply
  coil = coil
  register = register
  station = station
  outstation = outstation
  Hosts = {master, slave}
  Links = {wire}
  Units = {unit}
  Addresses = {station, outstation}
  Funcs = {read, written, answer, poll, reply}
  Asks = {read, written, poll}
  Targets = {coil, register}
  None = None
  NoFunction = None
  Packets <- MCPackets
  Identities <- MCIdentities
  NumPeriod = 2
  Threshold = 4
  MaxPackets = 4
  MaxPeriods = 3
INVARIANTS
  LevelsAgree
  AnsweredOnce
  EveryPacketLogged
  IdentitiesEarned
  BaselineIsTraining
  RepeatIsQuiet
  BranchesReported
CHECK_DEADLOCK FALSE
