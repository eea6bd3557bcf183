SPECIFICATION Spec
CONSTANTS
    Tests = {1, 2, 3, 4, 5, 6, 7, 8, 9, 10, 11}
    MaxVehicles <- MCMaxVehicles
    MaxPassengers = 2
    MaxValets = 1
    MaxTakers = 1
    MIN_NUM_VEHICLES_WAITING = 2
INVARIANTS
    CountsMatch
    ParkingInOrder
    ExchangesInOrder
CHECK_DEADLOCK FALSE
