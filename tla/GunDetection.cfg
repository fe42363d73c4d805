SPECIFICATION GunSpec
CONSTANTS
  Width = 10
  Guns = {0, 5}
  Lookalikes = {7}
  Pans = {4, 5}
  Speed = 1
  People <- MCPeople
  Overhang = 1
  MergeDistance = 2
  Margin = 2
  MaxPeople = 2
INVARIANTS
  FewPointsPerGun
  PointsStayFew
  RoiInFrame
