------------------------------ MODULE WatchFeed ------------------------------
(* What a durable watch promises each of its streams: while it is open, it *)
(* moves through the journal one published entry at a time, leaving none   *)
(* out and repeating none, and it may end at any moment.  Nothing is said  *)
(* of tailers, rings, replays or retention: WatchStream implements this.   *)
EXTENDS Integers, Sequences

CONSTANT Clients

VARIABLES published,  \* published[e]: length of the journal of epoch e
          at          \* at[c]: the cursor of c's stream, or Closed

Closed == [epoch |-> 0, seq |-> 0]

FeedInit ==
  /\ published = <<0>>
  /\ at = [c \in Clients |-> Closed]

\* One more entry in the journal of the current epoch, the last one.
Publish ==
  /\ published' = [published EXCEPT ![Len(published)] = @ + 1]
  /\ UNCHANGED at

\* The journal starts over with a new epoch.
Restart ==
  /\ published' = Append(published, 0)
  /\ UNCHANGED at

\* A stream opens at a cursor the journal has reached.
Open(c) ==
  /\ at[c] = Closed
  /\ \E e \in 1..Len(published) : \E s \in 0..published[e] :
       at' = [at EXCEPT ![c] = [epoch |-> e, seq |-> s]]
  /\ UNCHANGED published

\* It hands over the entry after its cursor.
Advance(c) ==
  /\ at[c] # Closed
  /\ at[c].seq < published[at[c].epoch]
  /\ at' = [at EXCEPT ![c].seq = @ + 1]
  /\ UNCHANGED published

Close(c) ==
  /\ at' = [at EXCEPT ![c] = Closed]
  /\ UNCHANGED published

FeedNext == Publish \/ Restart \/ \E c \in Clients : Open(c) \/ Advance(c) \/ Close(c)

Feed == FeedInit /\ [][FeedNext]_<<published, at>>
=============================================================================
