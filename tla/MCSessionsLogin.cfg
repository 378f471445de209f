\* One request and a dropped socket on Redis.
CONSTANTS
  i1 = i1
  i2 = i2
  c1 = c1
  c2 = c2
  c3 = c3
  s1 = s1
  s2 = s2
  s3 = s3
  q1 = q1
  q2 = q2
  Boot = Boot
  None = None
  Session = {i1, i2}
  Conn = {c1, c2, c3}
  Sock = {s1, s2, s3}
  Request = {q1, q2}
  Configs <- RedisOnly
SPECIFICATION Spec
PROPERTIES
  ReconnectKeepsLogin
CHECK_DEADLOCK FALSE
