SPECIFICATION Spec
CONSTANTS
  NoHost = NoHost
  NoPw = 0
  Hosts = {s1, s2, s3}
  Passwords = {1, 2, 3, 4, 5, 6, 7, 8}
  w0 = 1
  MaxFaults = 0
INVARIANTS NeverApart
