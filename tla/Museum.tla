------------------------------- MODULE Museum -------------------------------
(***************************************************************************)
(* The museum parking simulation on kernel threads: threads/p2.cc, with    *)
(* its threads in p2functions.h and its shared data in globaldata.h.       *)
(*                                                                         *)
(* A thread's step runs from one blocking call to the next: it starts by   *)
(* acquiring a lock or by waking from a condition and ends where the next  *)
(* Acquire or Wait may block.  Locks and conditions are the kernel's, as   *)
(* module Monitor states them: a condition's waiters leave first in, first *)
(* out and compete for the lock again (Mesa); Yield and random durations   *)
(* are the interleaving itself.  Locks that protect one assignment         *)
(* (valetExchangeLock, numCarsWaitingToParkLock, ticketLineLengthLock,     *)
(* ticketVisitorNumberLock, ticketTakerAlertLock, valetManagerAlertLock)   *)
(* are never held across a step and are left out.                          *)
(***************************************************************************)
EXTENDS Integers, Sequences, FiniteSets, TLC

LOCAL F == INSTANCE Functions

CONSTANTS Tests,              \* the set-ups of p2.cc that are started
          MaxVehicles,        \* per test, a bound on its limousines and cars
          MaxPassengers,      \* bound on the passengers of a vehicle
          MaxValets,          \* bound on the valets of test 1
          MaxTakers,          \* bound on the ticket takers
          MIN_NUM_VEHICLES_WAITING

ASSUME MuseumAssumption ==
    /\ Tests \subseteq 1..11
    /\ MaxVehicles \in [1..11 -> Nat \ {0}]
    /\ {MaxPassengers, MaxValets, MaxTakers} \subseteq Nat \ {0}
    /\ MIN_NUM_VEHICLES_WAITING \in Nat

VARIABLES
    test,                  \* what the chosen test forks, and its flags
    pc,                    \* where each thread blocks next
    my,                    \* its lineIndex, valetIndex or carIndex
    manager,               \* the manager's local variables
    owner,                 \* Lock::ownerThread
    waiting,               \* Condition::queue
    numCarsWaitingToPark, numLimosWaitingToPark,
    waitOnValetStatus,     \* limoWaitOnValetStatus and carWaitOnValetStatus
    tokenReturnStatus, valetExchange, valetStatusRegister,
    passengerCount, ticketLineLength, ticketVisitorNumber,
    accepted,              \* history: whose ticket a taker accepted
    tipped                 \* history: whose tip a valet took

countVars  == <<numCarsWaitingToPark, numLimosWaitingToPark>>
exchangeVars == <<waitOnValetStatus, tokenReturnStatus, valetExchange,
                  valetStatusRegister, tipped>>
ticketVars == <<ticketLineLength, ticketVisitorNumber, accepted>>
vars == <<test, pc, my, manager, owner, waiting, numCarsWaitingToPark,
          numLimosWaitingToPark, waitOnValetStatus, tokenReturnStatus,
          valetExchange, valetStatusRegister, passengerCount,
          ticketLineLength, ticketVisitorNumber, accepted, tipped>>

-----------------------------------------------------------------------------
(* Enumerations and constants of globaldata.h, with their C values: a        *)
(* status register holds either one of these or the index of a valet.        *)
IN_BACK_ROOM   == 0
ON_BENCH       == 1
IS_PARKING_CAR == 2
NOT_WAITING_ON_VALET             == 0
WAITING_ON_VALET_TO_PARK         == 1
WAITING_ON_VALET_TO_RETURN_TOKEN == 3
EMPTY == -1
TIP   == -5000
MAX_NUM_VALETS_ON_BENCH == 2

Vehicles == LET most == CHOOSE n \in Tests : \A k \in Tests : MaxVehicles[n] >= MaxVehicles[k]
            IN  0 .. MaxVehicles[most] - 1
Valets   == 0 .. MaxValets - 1
Takers   == 0 .. MaxTakers - 1

Driver(c)     == <<"driver", c, 0>>
Visitor(c, j) == <<"visitor", c, j>>
Valet(i)      == <<"valet", i, 0>>
TicketTaker(t) == <<"taker", t, 0>>
ValetManager  == <<"manager", 0, 0>>
Main          == <<"main", 0, 0>>
Nobody        == <<"nobody", 0, 0>>

Visitors(c) == {Visitor(c, j) : j \in 1..MaxPassengers}
Customers   == {Driver(c) : c \in Vehicles} \cup UNION {Visitors(c) : c \in Vehicles}
Threads == Customers \cup {Valet(i) : i \in Valets}
           \cup {TicketTaker(t) : t \in Takers} \cup {ValetManager, Main}

(* Locks and conditions; those of one name and index are used together. *)
Passengers(c)  == <<"driverPassenger", c>>
WaitOnValet(c) == <<"waitOnValet", c>>     \* limoWaitOnValetCV, carWaitOnValetCV
TokenReturn(c) == <<"waitOnTokenReturn", c>>
ValetStatus(i) == <<"valetStatus", i>>
Line(t)        == <<"ticketLine", t>>
Taker(t)       == <<"ticketTaker", t>>
Alert(t)       == <<"ticketTakerAlert", t>>
NumLimos       == <<"numLimosWaitingToPark", 0>>
ManagerAlert   == <<"valetManagerAlert", 0>>
WaitLock       == <<"waitOnValetLock", 0>>
LimoLine       == <<"valetLimoLine", 0>>
CarLine        == <<"valetCarLine", 0>>
TokenLine      == <<"valetTokenReturnLine", 0>>

Locks == {Passengers(c) : c \in Vehicles} \cup {ValetStatus(i) : i \in Valets}
         \cup UNION {{Line(t), Taker(t)} : t \in Takers}
         \cup {NumLimos, WaitLock, LimoLine, CarLine, TokenLine}
Conditions == UNION {{Passengers(c), WaitOnValet(c), TokenReturn(c)} : c \in Vehicles}
              \cup {ValetStatus(i) : i \in Valets}
              \cup UNION {{Taker(t), Alert(t)} : t \in Takers}
              \cup {NumLimos, ManagerAlert}

At(t, label)   == pc[t] = label
Goto(t, label) == pc' = [pc EXCEPT ![t] = label]

(* Acquire returns: the lock is free, or the caller's already. *)
Acquire(t, l) == owner[l] \in {Nobody, t}

(* Release prints an error and returns when the caller is not the owner. *)
Release(own, t, l) == [own EXCEPT ![l] = IF @ = t THEN Nobody ELSE @]

Asleep(t, cv) == t \in F!Range(waiting[cv])

(* Wait is over: t was taken from the queue and has the lock again. *)
Woken(t, cv, l) == ~Asleep(t, cv) /\ Acquire(t, l)

Wait(w, t, cv)  == [w EXCEPT ![cv] = Append(@, t)]
Signal(w, cv)   == [w EXCEPT ![cv] = IF @ = << >> THEN @ ELSE Tail(@)]
Broadcast(w, cv) == [w EXCEPT ![cv] = << >>]

(* Wakes one thread on every valetStatusCV. *)
SignalAll(w) ==
    [cv \in Conditions |->
        IF \E i \in test.valets : cv = ValetStatus(i) THEN Signal(w, cv)[cv] ELSE w[cv]]

(* The loop that acquires every valetStatusLock, one at a time, in order. *)
AcquireValetStatus(t) ==
    \E i \in test.valets :
        /\ \A j \in test.valets : j < i => owner[ValetStatus(j)] = t
        /\ owner[ValetStatus(i)] = Nobody
        /\ owner' = [owner EXCEPT ![ValetStatus(i)] = t]
        /\ UNCHANGED <<test, pc, my, manager, waiting, passengerCount>>
        /\ UNCHANGED <<countVars, exchangeVars, ticketVars>>

HasAllValets(t) == \A i \in test.valets : owner[ValetStatus(i)] = t

ReleaseAllValets(t) ==
    [l \in Locks |-> IF \E i \in test.valets : l = ValetStatus(i)
                     THEN Release(owner, t, l)[l] ELSE owner[l]]

-----------------------------------------------------------------------------
(* Steps that many threads have in common. *)

(* Acquires l, which is not kept, sends w, and waits on cv. *)
Sleeps(t, w, cv, l) ==
    /\ Acquire(t, l)
    /\ waiting' = Wait(w, t, cv)
    /\ owner' = Release(owner, t, l)

(* Stands in the line l: its lock is free. *)
LinesUp(t, from, l, to) ==
    /\ At(t, from)
    /\ owner[l] = Nobody
    /\ owner' = [owner EXCEPT ![l] = t]
    /\ Goto(t, to)
    /\ UNCHANGED <<my, test, manager, waiting, passengerCount>>
    /\ UNCHANGED <<countVars, exchangeVars, ticketVars>>

(* Wakes on cv and releases its lock l at once. *)
Wakes(t, from, cv, l, to) ==
    /\ At(t, from)
    /\ Woken(t, cv, l)
    /\ Goto(t, to)
    /\ UNCHANGED <<my, test, manager, owner, waiting, passengerCount>>
    /\ UNCHANGED <<countVars, exchangeVars, ticketVars>>

-----------------------------------------------------------------------------
(* The ticket booths. *)

(* Joins the shortest line, of equal ones the first. *)
JoinsTicketLine(t) ==
    /\ At(t, "tickets")
    /\ LET k == CHOOSE k \in test.takers :
                   \A j \in test.takers :
                       \/ ticketLineLength[k] < ticketLineLength[j]
                       \/ ticketLineLength[k] = ticketLineLength[j] /\ k <= j
       IN  /\ my' = [my EXCEPT ![t] = k]
           /\ ticketLineLength' = [ticketLineLength EXCEPT ![k] = @ + 1]
    /\ Goto(t, "line")
    /\ UNCHANGED <<test, manager, owner, waiting, passengerCount, ticketVisitorNumber, accepted>>
    /\ UNCHANGED <<countVars, exchangeVars>>

(* Variant of OffersTicket: does not wait for the answer. *)
OffersTicketInPassing(t) ==
    /\ At(t, "front")
    /\ Acquire(t, Taker(my[t]))
    /\ ticketVisitorNumber' = [ticketVisitorNumber EXCEPT ![my[t]] = t]
    /\ waiting' = Signal(waiting, Alert(my[t]))
    /\ Goto(t, "ticket")
    /\ UNCHANGED <<test, my, manager, owner, passengerCount, ticketLineLength, accepted>>
    /\ UNCHANGED <<countVars, exchangeVars>>

(* Shows the ticket, alerts the taker and waits for the answer. *)
OffersTicket(t) ==
    /\ At(t, "front")
    /\ ticketVisitorNumber' = [ticketVisitorNumber EXCEPT ![my[t]] = t]
    /\ Sleeps(t, Signal(waiting, Alert(my[t])), Taker(my[t]), Taker(my[t]))
    /\ Goto(t, "ticket")
    /\ UNCHANGED <<my, test, manager, passengerCount, ticketLineLength, accepted>>
    /\ UNCHANGED <<countVars, exchangeVars>>

(* The ticket was accepted: leaves the booth. *)
EntersMuseum(t, to) ==
    /\ At(t, "ticket")
    /\ Woken(t, Taker(my[t]), Taker(my[t]))
    /\ owner' = Release(owner, t, Line(my[t]))
    /\ Goto(t, to)
    /\ UNCHANGED <<my, test, manager, waiting, passengerCount>>
    /\ UNCHANGED <<countVars, exchangeVars, ticketVars>>

VisitsMuseum(t, to) ==
    \/ JoinsTicketLine(t)
    \/ LinesUp(t, "line", Line(my[t]), "front")
    \/ OffersTicket(t)
    \/ EntersMuseum(t, to)

(* The taker, awake, serves the ticket shown at its booth, if there is one, *)
(* and waits for the next alert.                                            *)
TakerChecks(k) ==
    LET t      == TicketTaker(k)
        ticket == ticketVisitorNumber[k]
        served == ticket # Nobody
    IN  /\ At(t, "check")
        /\ ~Asleep(t, Alert(k))
        /\ owner[Taker(k)] = Nobody
        /\ waiting' = Wait(IF served THEN Signal(waiting, Taker(k)) ELSE waiting, t, Alert(k))
        /\ ticketLineLength' =
               [ticketLineLength EXCEPT ![k] = IF served THEN @ - 1 ELSE @]
        /\ accepted' = accepted \cup ({ticket} \ {Nobody})
        /\ ticketVisitorNumber' = [ticketVisitorNumber EXCEPT ![k] = Nobody]
        /\ UNCHANGED <<test, pc, my, manager, owner, passengerCount>>
        /\ UNCHANGED <<countVars, exchangeVars>>

-----------------------------------------------------------------------------
(* Passengers.  A visitor's lock and condition are those of the car c. *)

(* Sits in the car and waits for the driver. *)
SitsInCar(t, c) ==
    /\ At(t, "arriving")
    /\ Sleeps(t, waiting, Passengers(c), Passengers(c))
    /\ Goto(t, "inCar")
    /\ UNCHANGED <<my, test, manager, passengerCount, countVars, exchangeVars, ticketVars>>

(* One passenger less; the last one signals. *)
GetsOutOfCount(t, c, from, to) ==
    /\ At(t, from)
    /\ Woken(t, Passengers(c), Passengers(c))
    /\ passengerCount' = [passengerCount EXCEPT ![c] = @ - 1]
    /\ waiting' = IF passengerCount'[c] = 0 THEN Signal(waiting, Passengers(c)) ELSE waiting
    /\ Goto(t, to)
    /\ UNCHANGED <<my, test, manager, owner, countVars, exchangeVars, ticketVars>>

(* Back from the museum: the one that completes the car signals. *)
ComesBack(t, c) ==
    /\ At(t, "back")
    /\ passengerCount' = [passengerCount EXCEPT ![c] = @ + 1]
    /\ Sleeps(t, IF passengerCount'[c] = test.total[c]
                 THEN Signal(waiting, Passengers(c)) ELSE waiting,
              Passengers(c), Passengers(c))
    /\ Goto(t, "outside")
    /\ UNCHANGED <<my, test, manager, countVars, exchangeVars, ticketVars>>

VisitorStep(c, j) ==
    LET t == Visitor(c, j) IN
    \/ SitsInCar(t, c)
    \/ GetsOutOfCount(t, c, "inCar", IF test.onlyPark THEN "gone"
                                     ELSE IF test.museumOpen THEN "tickets" ELSE "back")
    \/ VisitsMuseum(t, IF test.onlyTickets THEN "gone" ELSE "back")
    \/ ComesBack(t, c)
    \/ GetsOutOfCount(t, c, "outside", "gone")

-----------------------------------------------------------------------------
(* Drivers of limousines and of cars. *)

IsLimo(c) == c \in test.vehicles /\ test.type[c] = "limo"
IsCar(c)  == c \in test.vehicles /\ test.type[c] = "car"
HasPassengers(c) == test.total[c] > 0

LimoArrives(c) ==
    /\ At(Driver(c), "arrive")
    /\ IsLimo(c)
    /\ Acquire(Driver(c), NumLimos)
    /\ numLimosWaitingToPark' = numLimosWaitingToPark + 1
    /\ waiting' = Broadcast(waiting, NumLimos)
    /\ Goto(Driver(c), "limoLine")
    /\ UNCHANGED <<my, test, manager, owner, passengerCount, numCarsWaitingToPark>>
    /\ UNCHANGED <<exchangeVars, ticketVars>>

CarArrives(c) ==
    /\ At(Driver(c), "arrive")
    /\ IsCar(c)
    /\ numCarsWaitingToPark' = numCarsWaitingToPark + 1
    /\ Goto(Driver(c), "carLine")
    /\ UNCHANGED <<my, test, manager, owner, waiting, passengerCount, numLimosWaitingToPark>>
    /\ UNCHANGED <<exchangeVars, ticketVars>>

(* The first car waits for news about the limousines. *)
WaitsForLimos(c) ==
    /\ At(Driver(c), "limos")
    /\ Sleeps(Driver(c), waiting, NumLimos, NumLimos)
    /\ Goto(Driver(c), "limosWait")
    /\ UNCHANGED <<my, test, manager, passengerCount, countVars, exchangeVars, ticketVars>>

(* Variant of LooksForLimos: numLimosWaitingToParkLock is not kept. *)
LooksForLimosOnce(c) ==
    /\ At(Driver(c), "limosWait")
    /\ Woken(Driver(c), NumLimos, NumLimos)
    /\ Goto(Driver(c), IF numLimosWaitingToPark = 0 THEN "search" ELSE "limos")
    /\ UNCHANGED <<my, test, manager, owner, waiting, passengerCount>>
    /\ UNCHANGED <<countVars, exchangeVars, ticketVars>>

(* Keeps numLimosWaitingToParkLock when it may go on to the valets. *)
LooksForLimos(c) ==
    /\ At(Driver(c), "limosWait")
    /\ Woken(Driver(c), NumLimos, NumLimos)
    /\ IF numLimosWaitingToPark = 0
       THEN /\ owner' = [owner EXCEPT ![NumLimos] = Driver(c)]
            /\ Goto(Driver(c), "search")
       ELSE /\ UNCHANGED owner
            /\ Goto(Driver(c), "limos")
    /\ UNCHANGED <<my, test, manager, waiting, passengerCount>>
    /\ UNCHANGED <<countVars, exchangeVars, ticketVars>>

(* With every valetStatusLock, sets the own status, wakes all the valets and *)
(* waits for one of them; a car lets go of numLimosWaitingToParkLock.        *)
CallsValets(c) ==
    LET t == Driver(c) IN
    /\ At(t, "search")
    /\ HasAllValets(t)
    /\ Acquire(t, WaitLock)
    /\ owner' = Release(ReleaseAllValets(t), t, NumLimos)
    /\ waitOnValetStatus' = [waitOnValetStatus EXCEPT ![c] = WAITING_ON_VALET_TO_PARK]
    /\ waiting' = Wait(SignalAll(waiting), t, WaitOnValet(c))
    /\ Goto(t, "called")
    /\ UNCHANGED <<my, test, manager, passengerCount, countVars, ticketVars>>
    /\ UNCHANGED <<tokenReturnStatus, valetExchange, valetStatusRegister, tipped>>

TellsPassengersToExit(c) ==
    LET dp == Passengers(c) IN
    /\ At(Driver(c), "tell")
    /\ Sleeps(Driver(c), Broadcast(waiting, dp), dp, dp)
    /\ Goto(Driver(c), "exiting")
    /\ UNCHANGED <<my, test, manager, passengerCount, countVars, exchangeVars, ticketVars>>

(* driverPassengerLock is kept until the passengers are in the museum. *)
PassengersExited(c) ==
    /\ At(Driver(c), "exiting")
    /\ Woken(Driver(c), Passengers(c), Passengers(c))
    /\ owner' = [owner EXCEPT ![Passengers(c)] = Driver(c)]
    /\ Goto(Driver(c), "park")
    /\ UNCHANGED <<my, test, manager, waiting, passengerCount>>
    /\ UNCHANGED <<countVars, exchangeVars, ticketVars>>

(* The driver puts what into the register of valet i, signals on cv and     *)
(* waits there again.                                                       *)
HandsOver(c, i, what, cv) ==
    /\ valetExchange' = [valetExchange EXCEPT ![i] = what]
    /\ Sleeps(Driver(c), Signal(waiting, cv), cv, WaitLock)
    /\ UNCHANGED <<test, manager, passengerCount, countVars, ticketVars>>
    /\ UNCHANGED <<waitOnValetStatus, tokenReturnStatus, valetStatusRegister, tipped>>

(* Hands the keys to the valet whose index is in the status register. *)
HandsOverKeys(c) ==
    LET valetIndex == waitOnValetStatus[c] IN
    /\ At(Driver(c), "park")
    /\ HandsOver(c, valetIndex, c, WaitOnValet(c))
    /\ my' = [my EXCEPT ![Driver(c)] = valetIndex]
    /\ Goto(Driver(c), "handed")

(* Empties the register of its valet and leaves the line. *)
LeavesExchange(c, line, to) ==
    /\ valetExchange' = [valetExchange EXCEPT ![my[Driver(c)]] = EMPTY]
    /\ owner' = Release(owner, Driver(c), line)
    /\ Goto(Driver(c), to)
    /\ UNCHANGED <<my, test, manager, waiting, passengerCount, countVars, ticketVars>>
    /\ UNCHANGED <<waitOnValetStatus, tokenReturnStatus, valetStatusRegister, tipped>>

(* Only the driver of a car visits the museum. *)
TakesParkingToken(c) ==
    /\ At(Driver(c), "handed")
    /\ Woken(Driver(c), WaitOnValet(c), WaitLock)
    /\ LeavesExchange(c, IF IsLimo(c) THEN LimoLine ELSE CarLine,
                      IF test.onlyPark THEN "tokenLine"
                      ELSE IF IsCar(c) /\ test.museumOpen THEN "tickets" ELSE "museum")

(* Waits for the passengers, who come back from the museum. *)
WaitsForPassengers(c) ==
    /\ At(Driver(c), "museum")
    /\ IF HasPassengers(c)
       THEN /\ waiting' = Wait(waiting, Driver(c), Passengers(c))
            /\ owner' = Release(owner, Driver(c), Passengers(c))
            /\ Goto(Driver(c), "visiting")
       ELSE Goto(Driver(c), "tokenLine") /\ UNCHANGED <<owner, waiting>>
    /\ UNCHANGED <<my, test, manager, passengerCount, countVars, exchangeVars, ticketVars>>

CallsForToken(c) ==
    LET t == Driver(c) IN
    /\ At(t, "tokenSearch")
    /\ HasAllValets(t)
    /\ Acquire(t, WaitLock)
    /\ owner' = ReleaseAllValets(t)
    /\ tokenReturnStatus' = [tokenReturnStatus EXCEPT ![c] = WAITING_ON_VALET_TO_RETURN_TOKEN]
    /\ waiting' = Wait(SignalAll(waiting), t, TokenReturn(c))
    /\ Goto(t, "tokenCalled")
    /\ UNCHANGED <<my, test, manager, passengerCount, countVars, ticketVars>>
    /\ UNCHANGED <<waitOnValetStatus, valetExchange, valetStatusRegister, tipped>>

GivesToken(c) ==
    LET valetIndex == tokenReturnStatus[c] IN
    /\ At(Driver(c), "tokenCalled")
    /\ Woken(Driver(c), TokenReturn(c), WaitLock)
    /\ HandsOver(c, valetIndex, c, TokenReturn(c))
    /\ my' = [my EXCEPT ![Driver(c)] = valetIndex]
    /\ Goto(Driver(c), "tokenGiven")

GivesTip(c) ==
    /\ At(Driver(c), "tokenGiven")
    /\ Woken(Driver(c), TokenReturn(c), WaitLock)
    /\ HandsOver(c, my[Driver(c)], TIP, TokenReturn(c))
    /\ UNCHANGED my
    /\ Goto(Driver(c), "tipped")

TakesKeys(c) ==
    /\ At(Driver(c), "tipped")
    /\ Woken(Driver(c), TokenReturn(c), WaitLock)
    /\ LeavesExchange(c, TokenLine, IF HasPassengers(c) THEN "reload" ELSE "gone")

TellsPassengersToEnter(c) ==
    LET dp == Passengers(c) IN
    /\ At(Driver(c), "reload")
    /\ Sleeps(Driver(c), Broadcast(waiting, dp), dp, dp)
    /\ Goto(Driver(c), "leaving")
    /\ UNCHANGED <<my, test, manager, passengerCount, countVars, exchangeVars, ticketVars>>

(* From the call for a valet until the keys are given away. *)
Parks(c) ==
    \/ At(Driver(c), "search") /\ AcquireValetStatus(Driver(c))
    \/ CallsValets(c)
    \/ Wakes(Driver(c), "called", WaitOnValet(c), WaitLock,
             IF HasPassengers(c) THEN "tell" ELSE "park")
    \/ TellsPassengersToExit(c)
    \/ PassengersExited(c)
    \/ HandsOverKeys(c)
    \/ TakesParkingToken(c)

(* From the museum until the car is gone. *)
Leaves(c) ==
    \/ WaitsForPassengers(c)
    \/ Wakes(Driver(c), "visiting", Passengers(c), Passengers(c), "tokenLine")
    \/ LinesUp(Driver(c), "tokenLine", TokenLine, "tokenSearch")
    \/ At(Driver(c), "tokenSearch") /\ AcquireValetStatus(Driver(c))
    \/ CallsForToken(c)
    \/ GivesToken(c)
    \/ GivesTip(c)
    \/ TakesKeys(c)
    \/ TellsPassengersToEnter(c)
    \/ Wakes(Driver(c), "leaving", Passengers(c), Passengers(c), "gone")

LimoLinesUp(c) ==
    \/ LimoArrives(c)
    \/ LinesUp(Driver(c), "limoLine", LimoLine, "search")

CarLinesUp(c) ==
    \/ CarArrives(c)
    \/ LinesUp(Driver(c), "carLine", CarLine, "limos")
    \/ WaitsForLimos(c)
    \/ LooksForLimos(c)

(* Unlike a limousine's, a car's driver visits the museum; the rest of the  *)
(* two functions is the same.                                               *)
CarVisits(c) == VisitsMuseum(Driver(c), IF test.onlyTickets THEN "gone" ELSE "museum")

DriverStep(c) ==
    \/ LimoLinesUp(c) \/ CarLinesUp(c)
    \/ Parks(c)
    \/ CarVisits(c)
    \/ Leaves(c)

-----------------------------------------------------------------------------
(* Valets.  At "loop" a valet looks at its register. *)

Keeps(t, l) == owner' = [owner EXCEPT ![l] = t]

StartsWork(i) == LinesUp(Valet(i), "start", ValetStatus(i), "loop")

(* Waits on valetStatusCV, with its lock or without. *)
WaitsForStatus(i, to) ==
    /\ waiting' = Wait(waiting, Valet(i), ValetStatus(i))
    /\ owner' = Release(owner, Valet(i), ValetStatus(i))
    /\ Goto(Valet(i), to)
    /\ UNCHANGED <<my, test, manager, passengerCount, countVars, exchangeVars, ticketVars>>

InBackRoom(i) ==
    /\ At(Valet(i), "loop")
    /\ valetStatusRegister[i] = IN_BACK_ROOM
    /\ WaitsForStatus(i, "backRoom")

ComesOut(i) ==
    /\ At(Valet(i), "backRoom")
    /\ Woken(Valet(i), ValetStatus(i), ValetStatus(i))
    /\ Keeps(Valet(i), ValetStatus(i))
    /\ valetStatusRegister' = [valetStatusRegister EXCEPT ![i] = ON_BENCH]
    /\ Goto(Valet(i), "loop")
    /\ UNCHANGED <<my, test, manager, waiting, passengerCount, countVars, ticketVars>>
    /\ UNCHANGED <<waitOnValetStatus, tokenReturnStatus, valetExchange, tipped>>

(* Tells the cars to look for limousines again. *)
SitsDown(i) ==
    /\ At(Valet(i), "loop")
    /\ valetStatusRegister[i] = ON_BENCH
    /\ Acquire(Valet(i), NumLimos)
    /\ waiting' = Broadcast(waiting, NumLimos)
    /\ Goto(Valet(i), "bench")
    /\ UNCHANGED <<my, test, manager, owner, passengerCount, countVars, exchangeVars, ticketVars>>

OnBench(i) == At(Valet(i), "bench") /\ WaitsForStatus(i, "benchWait")

(* The ready list is first in, first out: a driver that valet i woke before *)
(* it slept has asked for waitOnValetLock by the time the valet runs again, *)
(* and has it before the valet asks for it.                                 *)
DriversWentOn(i) ==
    \A c \in test.vehicles :
        /\ my[Driver(c)] = i
        /\ \/ At(Driver(c), "handed") /\ ~Asleep(Driver(c), WaitOnValet(c))
           \/ At(Driver(c), "tipped") /\ ~Asleep(Driver(c), TokenReturn(c))
        => owner[WaitLock] # Nobody

(* Sent to the back room a valet releases its lock before it goes there. *)
LeavesBench(i) ==
    /\ At(Valet(i), "benchWait")
    /\ Woken(Valet(i), ValetStatus(i), ValetStatus(i))
    /\ DriversWentOn(i)
    /\ IF valetStatusRegister[i] = IN_BACK_ROOM
       THEN Goto(Valet(i), "loop") /\ UNCHANGED owner
       ELSE Goto(Valet(i), "lookForLimos") /\ Keeps(Valet(i), ValetStatus(i))
    /\ UNCHANGED <<my, test, manager, waiting, passengerCount, countVars, exchangeVars, ticketVars>>

(* The two counters are read one after the other. *)
LooksForWork(i) ==
    /\ \/ /\ At(Valet(i), "lookForLimos")
          /\ Acquire(Valet(i), NumLimos)
          /\ Goto(Valet(i), IF numLimosWaitingToPark > 0 THEN "limo" ELSE "lookForCars")
       \/ /\ At(Valet(i), "lookForCars")
          /\ Goto(Valet(i), IF numCarsWaitingToPark > 0 THEN "car" ELSE "token")
    /\ UNCHANGED <<my, test, manager, owner, waiting, passengerCount>>
    /\ UNCHANGED <<countVars, exchangeVars, ticketVars>>

First(set) == CHOOSE c \in set : \A d \in set : c <= d

LimosCalling == {c \in test.vehicles : IsLimo(c) /\ waitOnValetStatus[c] = WAITING_ON_VALET_TO_PARK}
CarsCalling  == {c \in test.vehicles : IsCar(c) /\ waitOnValetStatus[c] = WAITING_ON_VALET_TO_PARK}
TokensReturned == {c \in test.vehicles : tokenReturnStatus[c] = WAITING_ON_VALET_TO_RETURN_TOKEN}

(* The driver the counter told of is not there: waitOnValetLock stays taken. *)
FindsNobody(i, at, customers) ==
    /\ At(Valet(i), at)
    /\ Acquire(Valet(i), WaitLock)
    /\ customers = {}
    /\ Keeps(Valet(i), WaitLock)
    /\ Goto(Valet(i), "loop")
    /\ UNCHANGED <<my, test, manager, waiting, passengerCount, countVars, exchangeVars, ticketVars>>

FindsLimo(i) ==
    /\ At(Valet(i), "limo")
    /\ Acquire(Valet(i), WaitLock)
    /\ LimosCalling # {}
    /\ my' = [my EXCEPT ![Valet(i)] = First(LimosCalling)]
    /\ Keeps(Valet(i), WaitLock)
    /\ Goto(Valet(i), "limoTake")
    /\ UNCHANGED <<test, manager, waiting, passengerCount, countVars, exchangeVars, ticketVars>>

(* Variant of TakesLimo: the limousine stays in the count. *)
TakesLimoOnly(i) ==
    LET c == my[Valet(i)] IN
    /\ At(Valet(i), "limoTake")
    /\ Acquire(Valet(i), NumLimos)
    /\ waitOnValetStatus' = [waitOnValetStatus EXCEPT ![c] = i]
    /\ Sleeps(Valet(i), Signal(waiting, WaitOnValet(c)), WaitOnValet(c), WaitLock)
    /\ Goto(Valet(i), "keys")
    /\ UNCHANGED <<my, test, manager, passengerCount, countVars, ticketVars>>
    /\ UNCHANGED <<tokenReturnStatus, valetExchange, valetStatusRegister, tipped>>

(* Gives the driver its index and waits for the keys. *)
TakesLimo(i) ==
    LET c == my[Valet(i)] IN
    /\ At(Valet(i), "limoTake")
    /\ Acquire(Valet(i), NumLimos)
    /\ numLimosWaitingToPark' = numLimosWaitingToPark - 1
    /\ waitOnValetStatus' = [waitOnValetStatus EXCEPT ![c] = i]
    /\ Sleeps(Valet(i), Signal(waiting, WaitOnValet(c)), WaitOnValet(c), WaitLock)
    /\ Goto(Valet(i), "keys")
    /\ UNCHANGED <<my, test, manager, passengerCount, numCarsWaitingToPark, ticketVars>>
    /\ UNCHANGED <<tokenReturnStatus, valetExchange, valetStatusRegister, tipped>>

TakesCar(i) ==
    LET c == First(CarsCalling) IN
    /\ At(Valet(i), "car")
    /\ CarsCalling # {}
    /\ my' = [my EXCEPT ![Valet(i)] = c]
    /\ numCarsWaitingToPark' = numCarsWaitingToPark - 1
    /\ waitOnValetStatus' = [waitOnValetStatus EXCEPT ![c] = i]
    /\ Sleeps(Valet(i), Signal(waiting, WaitOnValet(c)), WaitOnValet(c), WaitLock)
    /\ Goto(Valet(i), "keys")
    /\ UNCHANGED <<test, manager, passengerCount, numLimosWaitingToPark, ticketVars>>
    /\ UNCHANGED <<tokenReturnStatus, valetExchange, valetStatusRegister, tipped>>

(* With the keys of its driver the valet returns a token; with others it    *)
(* reports them and keeps waitOnValetLock.                                  *)
TakesKeysOfDriver(i) ==
    LET c == my[Valet(i)] IN
    /\ At(Valet(i), "keys")
    /\ Woken(Valet(i), WaitOnValet(c), WaitLock)
    /\ IF valetExchange[i] = c
       THEN /\ valetExchange' = [valetExchange EXCEPT ![i] = i]
            /\ waiting' = Signal(waiting, WaitOnValet(c))
            /\ UNCHANGED owner
       ELSE /\ Keeps(Valet(i), WaitLock)
            /\ UNCHANGED <<valetExchange, waiting>>
    /\ valetStatusRegister' = [valetStatusRegister EXCEPT ![i] = IS_PARKING_CAR]
    /\ Goto(Valet(i), "loop")
    /\ UNCHANGED <<my, test, manager, passengerCount, countVars, ticketVars>>
    /\ UNCHANGED <<waitOnValetStatus, tokenReturnStatus, tipped>>

ParksCar(i) ==
    /\ At(Valet(i), "loop")
    /\ valetStatusRegister[i] = IS_PARKING_CAR
    /\ waiting' = Signal(waiting, ManagerAlert)
    /\ valetStatusRegister' = [valetStatusRegister EXCEPT ![i] = ON_BENCH]
    /\ UNCHANGED <<test, pc, my, manager, owner, passengerCount, countVars, ticketVars>>
    /\ UNCHANGED <<waitOnValetStatus, tokenReturnStatus, valetExchange, tipped>>

(* Answers a driver who returns a token, and waits for it. *)
TakesToken(i) ==
    LET c == First(TokensReturned) IN
    /\ At(Valet(i), "token")
    /\ TokensReturned # {}
    /\ my' = [my EXCEPT ![Valet(i)] = c]
    /\ tokenReturnStatus' = [tokenReturnStatus EXCEPT ![c] = i]
    /\ Sleeps(Valet(i), Signal(waiting, TokenReturn(c)), TokenReturn(c), WaitLock)
    /\ Goto(Valet(i), "tokenGot")
    /\ UNCHANGED <<test, manager, passengerCount, countVars, ticketVars>>
    /\ UNCHANGED <<waitOnValetStatus, valetExchange, valetStatusRegister, tipped>>

WaitsForTip(i) ==
    LET cv == TokenReturn(my[Valet(i)]) IN
    /\ At(Valet(i), "tokenGot")
    /\ Woken(Valet(i), cv, WaitLock)
    /\ Sleeps(Valet(i), Signal(waiting, cv), cv, WaitLock)
    /\ Goto(Valet(i), "tip")
    /\ UNCHANGED <<my, test, manager, passengerCount, countVars, exchangeVars, ticketVars>>

(* Without a tip the valet keeps the keys, and the driver waits on. *)
TakesTip(i) ==
    LET c == my[Valet(i)] IN
    /\ At(Valet(i), "tip")
    /\ Woken(Valet(i), TokenReturn(c), WaitLock)
    /\ IF valetExchange[i] = TIP
       THEN /\ waiting' = Signal(waiting, TokenReturn(c))
            /\ valetExchange' = [valetExchange EXCEPT ![i] = c]
            /\ tipped' = tipped \cup {c}
       ELSE UNCHANGED <<waiting, valetExchange, tipped>>
    /\ Goto(Valet(i), "loop")
    /\ UNCHANGED <<my, test, manager, owner, passengerCount, countVars, ticketVars>>
    /\ UNCHANGED <<waitOnValetStatus, tokenReturnStatus, valetStatusRegister>>

(* What a valet does about its register. *)
ObeysStatus(i) ==
    \/ StartsWork(i)
    \/ InBackRoom(i) \/ ComesOut(i)
    \/ SitsDown(i) \/ OnBench(i) \/ LeavesBench(i)
    \/ ParksCar(i)

ServesDriver(i) ==
    \/ LooksForWork(i)
    \/ FindsNobody(i, "limo", LimosCalling) \/ FindsLimo(i) \/ TakesLimo(i)
    \/ FindsNobody(i, "car", CarsCalling) \/ TakesCar(i)
    \/ TakesKeysOfDriver(i)
    \/ FindsNobody(i, "token", TokensReturned)
    \/ TakesToken(i) \/ WaitsForTip(i) \/ TakesTip(i)

ValetStep(i) == ObeysStatus(i) \/ ServesDriver(i)

-----------------------------------------------------------------------------
(* The valet manager. *)

CountsCars ==
    /\ At(ValetManager, "count")
    /\ manager' = [manager EXCEPT !.vehicles = numCarsWaitingToPark]
    /\ Goto(ValetManager, "countLimos")
    /\ UNCHANGED <<test, my, owner, waiting, passengerCount, countVars, exchangeVars, ticketVars>>

CountsLimos ==
    LET vehicles == manager.vehicles + numLimosWaitingToPark IN
    /\ At(ValetManager, "countLimos")
    /\ Acquire(ValetManager, NumLimos)
    /\ manager' = [manager EXCEPT !.vehicles = 0]
    /\ Goto(ValetManager, IF vehicles >= MIN_NUM_VEHICLES_WAITING THEN "callOut" ELSE "sendBack")
    /\ UNCHANGED <<test, my, owner, waiting, passengerCount, countVars, exchangeVars, ticketVars>>

ValetsThat(status) == {i \in test.valets : valetStatusRegister[i] = status}

(* With all the locks, puts a valet on the bench; the one signalled is that *)
(* of the manager's own index, 0.                                           *)
CallsValetOut ==
    LET idle == ValetsThat(IN_BACK_ROOM)
        backRoomValet == IF idle = {} THEN manager.backRoomValet ELSE First(idle)
    IN  /\ At(ValetManager, "callOut")
        /\ HasAllValets(ValetManager)
        /\ manager' = [manager EXCEPT !.backRoomValet = backRoomValet]
        /\ IF valetStatusRegister[backRoomValet] = IN_BACK_ROOM
           THEN /\ valetStatusRegister' = [valetStatusRegister EXCEPT ![backRoomValet] = ON_BENCH]
                /\ waiting' = Signal(waiting, ValetStatus(0))
           ELSE UNCHANGED <<valetStatusRegister, waiting>>
        /\ owner' = ReleaseAllValets(ValetManager)
        /\ Goto(ValetManager, "sendBack")
        /\ UNCHANGED <<test, my, passengerCount, countVars, ticketVars>>
        /\ UNCHANGED <<waitOnValetStatus, tokenReturnStatus, valetExchange, tipped>>

(* The count of valets on the bench goes on from round to round; it is kept *)
(* up to the limit it is compared with.                                     *)
SendsValetBack ==
    LET benched == ValetsThat(ON_BENCH)
        sum     == manager.valetsOnBench + Cardinality(benched)
        benchValet == IF benched = {} THEN manager.benchValet
                      ELSE CHOOSE i \in benched : \A j \in benched : i >= j
    IN  /\ At(ValetManager, "sendBack")
        /\ HasAllValets(ValetManager)
        /\ manager' = [manager EXCEPT
               !.valetsOnBench = IF sum > MAX_NUM_VALETS_ON_BENCH THEN MAX_NUM_VALETS_ON_BENCH ELSE sum,
               !.benchValet = benchValet]
        /\ IF sum >= MAX_NUM_VALETS_ON_BENCH /\ valetStatusRegister[benchValet] = ON_BENCH
           THEN /\ valetStatusRegister' = [valetStatusRegister EXCEPT ![benchValet] = IN_BACK_ROOM]
                /\ waiting' = Signal(waiting, ValetStatus(benchValet))
           ELSE UNCHANGED <<valetStatusRegister, waiting>>
        /\ owner' = ReleaseAllValets(ValetManager)
        /\ Goto(ValetManager, "rest")
        /\ UNCHANGED <<test, my, passengerCount, countVars, ticketVars>>
        /\ UNCHANGED <<waitOnValetStatus, tokenReturnStatus, valetExchange, tipped>>

Rests ==
    /\ At(ValetManager, "rest")
    /\ waiting' = Wait(waiting, ValetManager, ManagerAlert)
    /\ Goto(ValetManager, "asleep")
    /\ UNCHANGED <<test, my, test, manager, owner, passengerCount, countVars, exchangeVars, ticketVars>>

IsAlerted ==
    /\ At(ValetManager, "asleep")
    /\ ~Asleep(ValetManager, ManagerAlert)
    /\ Goto(ValetManager, "count")
    /\ UNCHANGED <<test, my, test, manager, owner, waiting, passengerCount>>
    /\ UNCHANGED <<countVars, exchangeVars, ticketVars>>

ManagerStep ==
    \/ CountsCars \/ CountsLimos
    \/ pc[ValetManager] \in {"callOut", "sendBack"} /\ AcquireValetStatus(ValetManager)
    \/ CallsValetOut \/ SendsValetBack
    \/ Rests \/ IsAlerted

(* The main thread of test 4 signals its valet three times. *)
MainSignals ==
    /\ At(Main, "main")
    /\ my[Main] < 3
    /\ owner[ValetStatus(0)] = Nobody
    /\ waiting' = Signal(waiting, ValetStatus(0))
    /\ my' = [my EXCEPT ![Main] = @ + 1]
    /\ UNCHANGED <<test, pc, manager, owner, passengerCount, countVars, exchangeVars, ticketVars>>

-----------------------------------------------------------------------------
(* The tests.  Each says which threads it forks and what flags it sets.     *)

AtMost(n, bound) == IF n < bound THEN n ELSE bound

(* InitializeData opens the museum; the valets come to sit on the bench. *)
Defaults == [museumOpen |-> TRUE, onlyPark |-> FALSE, onlyTickets |-> FALSE,
             drivers |-> TRUE, visitors |-> TRUE, inBackRoom |-> FALSE,
             manager |-> FALSE, valets |-> {0}, takers |-> {}]

ParkingOnly == [museumOpen |-> FALSE, onlyPark |-> TRUE]

(* The vehicles of test n, of which it has this many, cars and limousines   *)
(* in turn, each with so many passengers.                                   *)
InTurn(n, number, passengers) ==
    LET vehicles == 0 .. AtMost(number, MaxVehicles[n]) - 1
    IN  [vehicles |-> vehicles,
         type     |-> [c \in vehicles |-> IF c % 2 = 0 THEN "car" ELSE "limo"],
         total    |-> [c \in vehicles |-> AtMost(passengers, MaxPassengers)]]

(* Limousines, then cars, without passengers. *)
LimosThenCars(n, limos, cars) ==
    LET numLimos == AtMost(limos, MaxVehicles[n] \div 2)
        vehicles == 0 .. AtMost(numLimos + cars, MaxVehicles[n]) - 1
    IN  [vehicles |-> vehicles,
         type     |-> [c \in vehicles |-> IF c < numLimos THEN "limo" ELSE "car"],
         total    |-> [c \in vehicles |-> 0]]

(* Cars or limousines at random, with two to five passengers. *)
test1 == LET vehicles == 0 .. MaxVehicles[1] - 1 IN
         UNION {{ [vehicles |-> vehicles, type |-> type, total |-> total,
                   manager |-> TRUE, valets |-> 0..v, takers |-> 0..k] @@ Defaults :
                      type  \in [vehicles -> {"car", "limo"}],
                      total \in [vehicles -> 2..AtMost(5, MaxPassengers)]} :
                v \in Valets, k \in Takers}
test2  == {LimosThenCars(2, 12, 2) @@ ParkingOnly @@ Defaults}
test3  == {LimosThenCars(3, 5, 5) @@ ParkingOnly @@ Defaults}
test4  == {InTurn(4, 5, 0) @@ ParkingOnly @@ [inBackRoom |-> TRUE] @@ Defaults}
test5  == {InTurn(5, 20, 0) @@ ParkingOnly @@ [manager |-> TRUE] @@ Defaults}
test6  == {InTurn(6, 5, 2) @@ ParkingOnly @@ Defaults}
test7  == {InTurn(7, 5, 1) @@ [onlyTickets |-> TRUE, drivers |-> FALSE, valets |-> {},
                               takers |-> Takers] @@ Defaults}
test8  == {InTurn(8, 5, 0) @@ ParkingOnly @@ Defaults}
test9  == {InTurn(9, 5, 2) @@ ParkingOnly @@ [visitors |-> FALSE] @@ Defaults}
test10 == {InTurn(10, 5, 2) @@ [museumOpen |-> FALSE] @@ Defaults}
test11 == {InTurn(11, 5, 2) @@ [takers |-> Takers] @@ Defaults}

Problem2(choice) == << test1, test2, test3, test4, test5, test6,
                       test7, test8, test9, test10, test11 >>[choice]

(* Where a thread that is forked begins; the others are gone.  A thread     *)
(* that is not forked yet is one that did not run yet.                      *)
Begins(t) ==
    LET c == t[2] IN
    CASE t[1] = "driver"  -> IF c \notin test.vehicles \/ ~test.drivers THEN "gone"
                             ELSE IF IsCar(c) /\ test.onlyTickets THEN "tickets" ELSE "arrive"
      [] t[1] = "visitor" -> IF c \notin test.vehicles \/ ~test.visitors THEN "gone"
                             ELSE IF t[3] > test.total[c] THEN "gone"
                             ELSE IF test.onlyTickets THEN "tickets" ELSE "arriving"
      [] t[1] = "valet"   -> IF t[2] \in test.valets THEN "start" ELSE "gone"
      [] t[1] = "taker"   -> IF t[2] \in test.takers THEN "check" ELSE "gone"
      [] t[1] = "manager" -> IF test.manager THEN "count" ELSE "gone"
      [] t[1] = "main"    -> IF test.inBackRoom THEN "main" ELSE "gone"

InitLocks ==
    /\ owner = [l \in Locks |-> Nobody]
    /\ waiting = [cv \in Conditions |-> << >>]

(* InitializeData, and what is zero when the program starts. *)
InitData ==
    /\ numCarsWaitingToPark = 0
    /\ numLimosWaitingToPark = 0
    /\ waitOnValetStatus = [c \in Vehicles |-> NOT_WAITING_ON_VALET]
    /\ tokenReturnStatus = [c \in Vehicles |-> EMPTY]
    /\ valetExchange = [i \in Valets |-> EMPTY]
    /\ valetStatusRegister = [i \in Valets |-> IF test.inBackRoom THEN IN_BACK_ROOM ELSE ON_BENCH]
    /\ passengerCount = [c \in Vehicles |-> IF c \in test.vehicles THEN test.total[c] ELSE 0]
    /\ ticketLineLength = [k \in Takers |-> 0]
    /\ ticketVisitorNumber = [k \in Takers |-> Nobody]

Init ==
    /\ test \in UNION {Problem2(choice) : choice \in Tests}
    /\ InitLocks
    /\ InitData
    /\ pc = [t \in Threads |-> Begins(t)]
    /\ my = [t \in Threads |-> 0]
    /\ manager = [vehicles |-> 0, valetsOnBench |-> 0, benchValet |-> 0, backRoomValet |-> 0]
    /\ accepted = {}
    /\ tipped = {}

(* A thread that is not forked is gone and takes no step. *)
Next ==
    \/ \E c \in Vehicles : DriverStep(c)
    \/ \E c \in Vehicles, j \in 1..MaxPassengers : VisitorStep(c, j)
    \/ \E i \in Valets : ValetStep(i)
    \/ \E k \in Takers : TakerChecks(k)
    \/ ManagerStep
    \/ MainSignals

Spec == Init /\ [][Next]_vars

-----------------------------------------------------------------------------
(* What the simulation is to show. *)

TypeOK ==
    /\ owner \in [Locks -> Threads \cup {Nobody}]
    /\ \A cv \in Conditions : F!Range(waiting[cv]) \subseteq Threads
    /\ numCarsWaitingToPark \in Int /\ numLimosWaitingToPark \in Int
    /\ waitOnValetStatus \in [Vehicles -> {NOT_WAITING_ON_VALET, WAITING_ON_VALET_TO_PARK} \cup Valets]
    /\ tokenReturnStatus \in [Vehicles -> {EMPTY, WAITING_ON_VALET_TO_RETURN_TOKEN} \cup Valets]
    /\ valetExchange \in [Valets -> {EMPTY, TIP} \cup Vehicles \cup Valets]
    /\ valetStatusRegister \in [Valets -> {IN_BACK_ROOM, ON_BENCH, IS_PARKING_CAR}]
    /\ accepted \subseteq Customers /\ tipped \subseteq Vehicles

(* The vehicles no valet has answered yet. *)
Unanswered ==
    {c \in test.vehicles :
        \/ pc[Driver(c)] \in {"limoLine", "carLine", "limos", "limosWait", "search"}
        \/ At(Driver(c), "called") /\ Asleep(Driver(c), WaitOnValet(c))}

(* The customers of booth k whose tickets are not accepted yet. *)
Unserved(k) ==
    {t \in Customers : /\ my[t] = k
                       /\ \/ pc[t] \in {"line", "front"}
                          \/ At(t, "ticket") /\ Asleep(t, Taker(k))}

Occupants(c) == {t \in Visitors(c) : pc[t] \in {"arriving", "inCar", "outside"}}

(* A second valet's index, 1, is also WAITING_ON_VALET_TO_PARK: its mark in *)
(* a driver's status looks like a call, and another valet answers again.    *)
OneValet == Cardinality(test.valets) = 1

(* The count of limousines that wait for a valet is that of the limousines  *)
(* no valet has answered.  With two valets it is not (README, section 5).   *)
LimosCounted == numLimosWaitingToPark = Cardinality({c \in Unanswered : IsLimo(c)})

(* The shared counters agree with the threads they stand for: vehicles that *)
(* the only valet has not answered, customers in a ticket line, passengers  *)
(* in or at their car.  Drivers, visitors, valets and takers change them in *)
(* their own steps, and valets and passengers decide by them what to do.    *)
CountsMatch ==
    /\ TypeOK
    /\ OneValet =>
           /\ LimosCounted
           /\ numCarsWaitingToPark = Cardinality({c \in Unanswered : IsCar(c)})
    /\ \A k \in test.takers : ticketLineLength[k] = Cardinality(Unserved(k))
    /\ test.visitors /\ ~test.onlyTickets =>
           \A c \in test.vehicles : passengerCount[c] = Cardinality(Occupants(c))

(* Tests 2 and 3: while a limousine waits in its line, the first car in its *)
(* line, which has looked at the count, does not call for a valet.          *)
CarsLetLimosPass ==
    \A c \in test.vehicles :
        IsCar(c) /\ At(Driver(c), "search") => numLimosWaitingToPark = 0

(* The passengers are out of a car whose driver has the keys in hand. *)
ExitedBeforeParking ==
    \A c \in test.vehicles :
        pc[Driver(c)] \in {"park", "handed"} =>
            \A j \in 1..test.total[c] : pc[Visitor(c, j)] \notin {"arriving", "inCar"}

(* Tests 2, 3 and 6: limousines go first, and, when the test ends with the  *)
(* parking, no car is parked before all its passengers got out.             *)
ParkingInOrder == CarsLetLimosPass /\ (test.onlyPark => ExitedBeforeParking)

(* Test 7, and the others with an open museum: a visitor or a car's driver  *)
(* is in the museum only if a taker accepted that very ticket.              *)
TicketsAccepted ==
    test.museumOpen =>
        \A c \in test.vehicles :
            /\ \A j \in 1..test.total[c] :
                  pc[Visitor(c, j)] \in {"back", "outside", "gone"} => Visitor(c, j) \in accepted
            /\ IsCar(c) /\ test.drivers
                  /\ pc[Driver(c)] \in {"museum", "visiting", "tokenLine", "tokenSearch",
                                        "tokenCalled", "tokenGiven", "tipped", "reload",
                                        "leaving", "gone"} => Driver(c) \in accepted

(* A valet that was handed keys was handed those of the driver it serves. *)
KeysMatch ==
    \A i \in test.valets :
        At(Valet(i), "keys") /\ ~Asleep(Valet(i), WaitOnValet(my[Valet(i)])) =>
            valetExchange[i] = my[Valet(i)]

(* A valet fetches the car of my[Valet(i)] only when that driver has given  *)
(* it the token, and a driver has the keys back only when a valet was       *)
(* tipped.                                                                  *)
TokenAndTip ==
    /\ \A i \in test.valets :
          At(Valet(i), "tip") =>
              LET c == my[Valet(i)] IN
              pc[Driver(c)] \in {"tokenGiven", "tipped"} /\ my[Driver(c)] = i
    /\ \A c \in test.vehicles :
          test.drivers /\ pc[Driver(c)] \in {"reload", "leaving", "gone"} => c \in tipped

(* Tests 7, 8 and 9: nothing is had before its price is paid.  Each of the  *)
(* exchanges takes several signals between two threads on one condition.    *)
ExchangesInOrder == TicketsAccepted /\ TokenAndTip /\ (OneValet => KeysMatch)
=============================================================================
