---------------------------- MODULE OutgoingMail ----------------------------
(***************************************************************************)
(* What a queue of outgoing mail promises, whoever implements it.          *)
(*                                                                         *)
(* A message waits, is tried, and ends.  A try is opened from the waiting  *)
(* state only and hands over at most one copy of the message.  A message   *)
(* reported sent was handed over; a message withdrawn by its owner was not *)
(* being tried and will never be tried again; erasing the owner's mailbox  *)
(* removes the message but cannot call back a try that is already open.    *)
(***************************************************************************)

CONSTANT Messages

VARIABLES
  life,   \* life[m]: what the owner of m would be told about it
  try     \* try[m]: the latest try of m

avars == <<life, try>>

Lives == {"absent", "waiting", "trying", "sent", "dead", "bounced",
          "withdrawn", "erased"}

Tries == {"idle",     \* no copy was handed over by the latest try
          "open",     \* the try may still hand over one copy
          "handed"}   \* the try handed over a copy

ATypeOK == /\ life \in [Messages -> Lives]
           /\ try \in [Messages -> Tries]

AInit == /\ life = [m \in Messages |-> "absent"]
         /\ try = [m \in Messages |-> "idle"]

Submit(m) == /\ life[m] = "absent"
             /\ life' = [life EXCEPT ![m] = "waiting"]
             /\ UNCHANGED try

(* A batch of waiting messages is opened together; the try of a message    *)
(* whose worker is lost at once (S \ T) never hands anything over.         *)
Begin(S, T) == /\ T \subseteq S
               /\ \A m \in S : life[m] = "waiting" /\ try[m] # "open"
               /\ life' = [m \in Messages |-> IF m \in S THEN "trying" ELSE life[m]]
               /\ try' = [m \in Messages |-> IF m \in T THEN "open"
                                             ELSE IF m \in S THEN "idle" ELSE try[m]]

HandOver(m) == /\ try[m] = "open"
               /\ try' = [try EXCEPT ![m] = "handed"]
               /\ UNCHANGED life

(* Tries that end, with or without the death of the worker, empty-handed.  *)
Break(S) == /\ \A m \in S : try[m] = "open"
            /\ try' = [m \in Messages |-> IF m \in S THEN "idle" ELSE try[m]]
            /\ UNCHANGED life

(* A closed try is settled.  Handing over does not prevent another try: an *)
(* acknowledgement may be lost.  Only a handed-over message becomes sent,  *)
(* and only one that was not becomes bounced.                              *)
Outcomes(m) == {"waiting", "dead"}
                 \cup (IF try[m] = "handed" THEN {"sent"} ELSE {"bounced"})

Settle(m) == /\ life[m] = "trying"
             /\ try[m] # "open"
             /\ \E o \in Outcomes(m) : life' = [life EXCEPT ![m] = o]
             /\ UNCHANGED try

Revive(m) == /\ life[m] = "dead"
             /\ life' = [life EXCEPT ![m] = "waiting"]
             /\ UNCHANGED try

Withdraw(m) == /\ life[m] \in {"waiting", "dead"}
               /\ life' = [life EXCEPT ![m] = "withdrawn"]
               /\ UNCHANGED try

Erase(S) == /\ life' = [m \in Messages |-> IF m \in S THEN "erased" ELSE life[m]]
            /\ UNCHANGED try

ANext == \/ \E m \in Messages : \/ Submit(m) \/ HandOver(m) \/ Settle(m)
                                \/ Revive(m) \/ Withdraw(m)
         \/ \E S \in SUBSET Messages : \/ \E T \in SUBSET S : Begin(S, T)
                                       \/ Break(S) \/ Erase(S)

ASpec == AInit /\ [][ANext]_avars

-----------------------------------------------------------------------------
(* A message the owner withdrew has no try open on it: withdrawing is a    *)
(* promise that nothing more will be sent.                                 *)
WithdrawnIsQuiet == \A m \in Messages : life[m] = "withdrawn" => try[m] # "open"

(* A message is reported sent only when its latest try handed it over, and *)
(* bounced only when it did not.                                           *)
ReportIsTrue == \A m \in Messages :
                   /\ life[m] = "sent" => try[m] = "handed"
                   /\ life[m] = "bounced" => try[m] = "idle"
=============================================================================
