CONSTANTS
  NR_WP = 4
  Exprs = {"a0"}
  Values = {0, 1}
SPECIFICATION PoolSpec
PROPERTIES DeletesOnlyNamed
