---------------------------- MODULE FcfsResource ----------------------------
(***************************************************************************)
(* Order and ownership, as api/power/arbiter/Resource.nc and the header    *)
(* comments of the two arbiters describe them: a resource with at most one *)
(* owner, granted first come, first served, once for every request put in  *)
(* line.  A client may also take the resource at once, but only while      *)
(* nobody owns it or waits for it.                                         *)
(***************************************************************************)
EXTENDS Sequences, Naturals

CONSTANTS Clients, NOBODY

VARIABLES line,     \* the clients whose request was accepted, oldest first
          owner     \* the client that has the resource, or NOBODY

resourceVars == <<line, owner>>

ResourceInit == line = << >> /\ owner = NOBODY

(* Nobody waits twice; but the client whose grant is under way may ask for *)
(* the next turn.                                                          *)
Ask(c) ==
  /\ \A i \in 1..Len(line) : line[i] = c => i = 1 /\ owner = NOBODY
  /\ line' = Append(line, c)
  /\ UNCHANGED owner

Grant ==
  /\ owner = NOBODY /\ line # << >>
  /\ owner' = Head(line)
  /\ line' = Tail(line)

TakeAtOnce(c) ==
  /\ owner = NOBODY /\ line = << >>
  /\ owner' = c
  /\ UNCHANGED line

GiveBack ==
  /\ owner # NOBODY
  /\ owner' = NOBODY
  /\ UNCHANGED line

ResourceNext ==
  \/ Grant \/ GiveBack
  \/ \E c \in Clients : Ask(c) \/ TakeAtOnce(c)

ResourceSpec == ResourceInit /\ [][ResourceNext]_resourceVars
=============================================================================
