\* Two threads that stay out of each other's function; both counters wrap.
CONSTANTS
  Thread = {t1, t2}
  Domain = {package, dram}
  CounterMod = 2
  TickMod = 2
  UnitMsr <- CommonUnits
  Exclusive = TRUE
  Faulty = TRUE
  MaxEnergy = 2
  MaxTime = 3
SPECIFICATION Spec
SYMMETRY Symmetry
INVARIANTS TypeOK SamplesAddUp
