\* Two creators race for the email, a login runs beside them and two edits use
\* its token, under every fault.
CONSTANTS
  Creators = {c1, c2}
  Logins = {s1}
  Edits = {x1, x2}
  Emails = {e1}
  Passwords = {p1, p2}
  Columns = {{"role"}, {"active", "password"}}
  AccountFaults = {"db", "ack"}
  NoToken = NoToken
  NoRequest = NoRequest
  NoOne = NoOne
SPECIFICATION Spec
SYMMETRY Symmetry
INVARIANTS
  TypeOK
  EmailsUnique
PROPERTY DirectorySpec
\* The operations are finitely many.
CHECK_DEADLOCK FALSE
