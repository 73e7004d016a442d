------------------------------ MODULE ThreadsInv ------------------------------
(***************************************************************************)
(* The inductive invariant of Threads.  A request about to open a thread   *)
(* is the only one and there is none, unless it was noticed as racing;     *)
(* the opening of a thread is served by one request; and every message     *)
(* and notice is of a thread that was opened, so a new one has none.       *)
(***************************************************************************)
EXTENDS Threads

\* What a request is about was there when it was read, and nothing is deleted.
RequestKnown(t) ==
    /\ t.op \in {"LOOK", "OPEN"} => t.user \in Members /\ t.animal \in Animals
    /\ t.op \in {"ALERT", "POST", "SEND"} => t.user \in Members /\ t.about \in DOMAIN inquiry
    /\ t.op = "SEND" => t.role # "NONE"
    /\ t.op = "MARK" => t.about \in DOMAIN notice

RequestsKnown == \A w \in Servers : RequestKnown(talk[w])

RowsKnown ==
    /\ \A m \in DOMAIN message : message[m].thread \in DOMAIN inquiry
    /\ \A n \in DOMAIN notice : notice[n].thread \in DOMAIN inquiry

OpensAlone ==
    \A w \in Servers :
        talk[w].op = "OPEN" /\ <<talk[w].user, talk[w].animal>> \notin raced =>
            /\ Threads(talk[w].user, talk[w].animal) = {}
            /\ Opening(talk[w].user, talk[w].animal) = {w}

\* No two threads of one member about one animal.
NoSecond ==
    \A i, j \in DOMAIN inquiry :
        /\ inquiry[i] = inquiry[j]
        /\ <<inquiry[i].inquirer, inquiry[i].animal>> \notin raced
        => i = j

AlertsOnce ==
    \A w, x \in Servers :
        talk[w].op = "ALERT" /\ talk[x].op = "ALERT" /\ talk[w].about = talk[x].about
            => w = x

IInv ==
    /\ TypeOK
    /\ RequestsKnown
    /\ RowsKnown
    /\ OpensAlone
    /\ NoSecond
    /\ AlertsOnce
    /\ ParticipantsTold
=============================================================================
