CONSTANTS
  Slot = {c1, c2}
  User = {u1, u2, u3}
  Staff = Staff
  Nobody = Nobody
  NoUser = NoUser
  NoOwner = NoOwner
  NoHolder = NoHolder
  NoUploader = NoUploader
  NoAccount = NoAccount
  Google = Google
  Naver = Naver
  Kakao = Kakao
  File = {f1}
  Team = {t1}
  App = {a1, a2}
  Cert = {k1, k2}
  Business = {b1, b2}
  Link = {l1, l2}
  Topic <- TeamOnly
  Spent <- Whole
  Capacity = 2
  ScoutLimit = 1
  MaxCalls = 4
  MaxDecrees = 2
  MaxOrders = 3
SPECIFICATION Spec
CHECK_DEADLOCK FALSE
INVARIANTS
  MembersAsked
