---------------------------- MODULE BookingStore ----------------------------
(***************************************************************************)
(* What the booking service of hw1 promises, whatever processes, locks and *)
(* descriptors it is made of: a store of records on which sessions are     *)
(* opened.  Any number of read sessions may share a record, a write        *)
(* session has it alone, a session shows the record as it is, and the only *)
(* change is one legal command at the end of a write session.              *)
(***************************************************************************)
EXTENDS Integers

CONSTANTS
    Session,     \* the places for a session
    Writer,      \* those of write sessions
    Record, Item, BookingLimit, NoRecord, InitBookings

VARIABLES
    bookings,    \* the records
    on           \* on[x]: the record session x is open on, or NoRecord

storeVars == <<bookings, on>>

LegalBooking(b) == /\ b[1] + b[2] + b[3] <= BookingLimit
                   /\ \A k \in Item : b[k] >= 0

Free(x, r) == \A y \in Session \ {x} : on[y] # r
NotWritten(x, r) == \A y \in Writer \ {x} : on[y] # r

StoreInit == /\ bookings = InitBookings
             /\ on = [x \in Session |-> NoRecord]

Open(x, r) ==
    /\ on[x] = NoRecord
    /\ IF x \in Writer THEN Free(x, r) ELSE NotWritten(x, r)
    /\ on' = [on EXCEPT ![x] = r]
    /\ UNCHANGED bookings

\* One session ends, or all those of a process that exits.
Close(S) ==
    /\ on' = [x \in Session |-> IF x \in S THEN NoRecord ELSE on[x]]
    /\ UNCHANGED bookings

\* The command of a write session ends it.
Update(x, b) ==
    /\ x \in Writer
    /\ on[x] # NoRecord
    /\ LegalBooking(b)
    /\ bookings' = [bookings EXCEPT ![on[x]] = b]
    /\ on' = [on EXCEPT ![x] = NoRecord]

StoreNext ==
    \/ \E x \in Session, r \in Record : Open(x, r)
    \/ \E S \in SUBSET Session : Close(S)
    \/ \E x \in Writer : \E b \in [Item -> 0 .. BookingLimit] : Update(x, b)

StoreSpec == StoreInit /\ [][StoreNext]_storeVars

=============================================================================
