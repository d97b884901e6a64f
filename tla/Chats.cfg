CONSTANTS
  Me = Me
  Users = {Me, u1, u2}
  NoUser = NoUser
  Nicks = {m, a, b}
  MyNick = m
  Free = Free
  Channels = {c1}
  Dialogs = {a}
  ServerChat = ServerChat
SPECIFICATION Spec
SYMMETRY UserSymmetry
INVARIANTS
  TypeOK
  PointersLive
  NoDoubleEntry
  JoinedMatchesPeer
  RosterExact
