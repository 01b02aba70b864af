---------------------------- MODULE PromotionRegistry ----------------------------
(***************************************************************************)
(* The PAPER champion/challenger registry (PromotionRegistry of             *)
(* src/research/promotion.py): one JSON file, read whole and rewritten      *)
(* whole by every call, without a lock.  A call is one or two rounds of     *)
(* reading and writing, each a step, so the rounds of two processes may     *)
(* interleave, a process may die between them, and one that dies in a write *)
(* leaves a file that no longer parses.                                     *)
(***************************************************************************)
EXTENDS Naturals, Sequences, FiniteSets

CONSTANTS
    Candidate,        \* hypothesis ids
    Family,           \* confirmation families
    Caller,           \* processes that call the registry
    Absent, Torn,     \* no entry; a file cut short
    RetireAfter       \* consecutive_degraded_reviews_before_retirement

ASSUME RegistryAssumption == RetireAfter \in Nat \ {0}

VARIABLES
    registry,    \* the file: every candidate's entry
    call         \* every process' call in progress

registryVars == <<registry, call>>

Status == {"REJECTED", "RESEARCH_CANDIDATE", "PAPER_CHALLENGER",
           "PAPER_CHAMPION", "DEGRADED", "RETIRED"}

Reviewed == {"PAPER_CHALLENGER", "PAPER_CHAMPION", "DEGRADED"}

(* What a call wants of its candidate: the status it sets, the statuses it   *)
(* accepts (all of them and no entry: Anything), and whether a second round  *)
(* of reading and writing follows.                                           *)
Anything == Status \cup {Absent}

Transition ==
    [register  |-> [to |-> "RESEARCH_CANDIDATE", from |-> Anything],
     reject    |-> [to |-> "REJECTED",           from |-> Anything],
     challenge |-> [to |-> "PAPER_CHALLENGER",   from |-> {"RESEARCH_CANDIDATE"}],
     crown     |-> [to |-> "PAPER_CHAMPION",     from |-> {"PAPER_CHALLENGER"}],
     degrade   |-> [to |-> "DEGRADED",           from |-> Reviewed],
     retire    |-> [to |-> "RETIRED",            from |-> Reviewed],
     kill      |-> [to |-> "RETIRED",            from |-> {"PAPER_CHALLENGER", "PAPER_CHAMPION"}]]

TwoRounds == {"register", "challenge", "degrade"}

NewEntry == [status |-> Absent, history |-> <<>>, degraded |-> 0, started |-> FALSE, families |-> {}]

Entry(file, id) == IF file[id] = Absent THEN NewEntry ELSE file[id]

NoCall == [at |-> "idle"]

RegistryInit ==
    /\ registry = [id \in Candidate |-> Absent]
    /\ call = [c \in Caller |-> NoCall]

SetCall(c, next) == call' = [call EXCEPT ![c] = next]

(* What a call takes along: its own entry and the file as it read them.      *)
Asked(op, id, families, by) ==
    [at |-> "read", op |-> op, id |-> id, families |-> families, by |-> by,
     entry |-> NewEntry, file |-> <<>>]

Start(c, op, id, families, by) ==
    /\ call[c] = NoCall
    /\ SetCall(c, Asked(op, id, families, by))
    /\ UNCHANGED registry

(* register_research_candidate                                               *)
Register(c, id, families) == families # {} /\ Start(c, "register", id, families, "caller")

(* promote_to_challenger, and the call for several families in front of it:  *)
(* proven is the set of families an independence report with status PASS     *)
(* covers.  The entry is looked up here and again by the transition.         *)
Challenge(c, id, proven) ==
    /\ registry # Torn
    /\ LET families == Entry(registry, id).families
       IN  /\ families # {}
           /\ Cardinality(families) >= 2 => families \subseteq proven
    /\ Start(c, "challenge", id, {}, "caller")

(* promote_to_champion: the protocol asks for a person, the caller names one *)
(* and the PAPER period was long enough, or the call raises.                 *)
Mutant_ApprovalNotAsked(c, id, by, served) == served /\ Start(c, "crown", id, {}, by)
Crown(c, id, by, served) == served /\ by = "human" /\ Start(c, "crown", id, {}, by)

(* reject, mark_degraded, retire and kill_paper                              *)
Review(c, op, id) == Start(c, op, id, {}, "caller")

(* _transition, first half: read, check, and append to the history.          *)
Moved(cl, entry) ==
    LET to == Transition[cl.op].to
    IN  [status   |-> to,
         history  |-> Append(entry.history, [from |-> entry.status, to |-> to, by |-> cl.by]),
         degraded |-> entry.degraded, started |-> entry.started, families |-> entry.families]

Accepts(cl) == registry # Torn /\ Entry(registry, cl.id).status \in Transition[cl.op].from

Take(c, at, entry) ==
    LET cl == call[c]
    IN  SetCall(c, [at |-> at, op |-> cl.op, id |-> cl.id, families |-> cl.families, by |-> cl.by,
                    entry |-> entry, file |-> [registry EXCEPT ![cl.id] = entry]])

Read(c) ==
    /\ call[c].at = "read"
    /\ Accepts(call[c])
    /\ Take(c, "write", Moved(call[c], Entry(registry, call[c].id)))
    /\ UNCHANGED registry

(* InvalidTransition, or a file that does not parse: it was cut short, or    *)
(* another process is just rewriting it.                                     *)
Writing(c) == call[c].at \in {"write", "rewrite"}

Raises(c) ==
    /\ \/ call[c].at = "read" /\ ~Accepts(call[c])
       \/ /\ call[c].at \in {"read", "reread"}
          /\ registry = Torn \/ \E d \in Caller \ {c} : Writing(d)
    /\ SetCall(c, NoCall)
    /\ UNCHANGED registry

(* _transition, second half.                                                 *)
Write(c) ==
    /\ call[c].at = "write"
    /\ registry' = call[c].file
    /\ SetCall(c, IF call[c].op \in TwoRounds THEN [call[c] EXCEPT !.at = "reread"] ELSE NoCall)

(* The second round writes the entry of the first, completed, into the file  *)
(* as it is by then.                                                         *)
Completed(cl) ==
    LET e == cl.entry
    IN  [status   |-> e.status,
         history  |-> e.history,
         degraded |-> IF cl.op = "degrade" THEN e.degraded + 1 ELSE e.degraded,
         started  |-> IF cl.op = "challenge" THEN TRUE ELSE e.started,
         families |-> IF cl.op = "register" THEN cl.families ELSE e.families]

Reread(c) ==
    /\ call[c].at = "reread"
    /\ registry # Torn
    /\ Take(c, "rewrite", Completed(call[c]))
    /\ UNCHANGED registry

(* mark_degraded retires a candidate at the threshold, by one more call.     *)
Mutant_RetiredOneEarly(cl) == cl.op = "degrade" /\ cl.entry.degraded + 1 >= RetireAfter
Due(cl) == cl.op = "degrade" /\ cl.entry.degraded >= RetireAfter

Rewrite(c) ==
    /\ call[c].at = "rewrite"
    /\ registry' = call[c].file
    /\ SetCall(c, IF Due(call[c]) THEN Asked("retire", call[c].id, {}, "auto") ELSE NoCall)

(* A process dies: a call ends where it is, and a write may be cut short.    *)
Abandon(c) ==
    /\ registry' \in {registry} \cup (IF Writing(c) THEN {Torn} ELSE {})
    /\ SetCall(c, NoCall)

CallStep(c) == Read(c) \/ Raises(c) \/ Write(c) \/ Reread(c) \/ Rewrite(c)

AskFor(c, id) ==
    \/ \E families \in SUBSET Family : Register(c, id, families) \/ Challenge(c, id, families)
    \/ \E by \in {"human", "caller"}, served \in BOOLEAN : Crown(c, id, by, served)
    \/ \E op \in {"reject", "degrade", "retire", "kill"} : Review(c, op, id)

RegistryNext == \E c \in Caller : CallStep(c) \/ Abandon(c) \/ \E id \in Candidate : AskFor(c, id)

RegistrySpec == RegistryInit /\ [][RegistryNext]_registryVars

-----------------------------------------------------------------------------
(* The lineage of an entry: every event leaves the status the one before     *)
(* reached, and the last one reached the entry's own.                        *)
Lineage(entry) ==
    LET h == entry.history
    IN  /\ Len(h) > 0
        /\ h[Len(h)].to = entry.status
        /\ \A i \in 2..Len(h) : h[i].from = h[i - 1].to

(* A champion was a challenger and is one because a person said so.          *)
Crowned(entry) ==
    entry.status = "PAPER_CHAMPION" =>
        LET last == entry.history[Len(entry.history)]
        IN  last.from = "PAPER_CHALLENGER" /\ last.by = "human"

(* "Every transition is recorded in history so the full lineage survives",   *)
(* and nothing "can flip a candidate to PAPER_CHAMPION without an explicit   *)
(* human_approved_by": whatever processes interleave or die, an entry is the *)
(* end of its own lineage and a champion's last step was taken from          *)
(* PAPER_CHALLENGER by a person.                                             *)
ChampionIsApproved ==
    registry # Torn =>
        \A id \in Candidate : registry[id] # Absent =>
            Lineage(registry[id]) /\ Crowned(registry[id])

(* mark_degraded decides to retire a candidate only when RetireAfter events  *)
(* of its own lineage found it degraded: a review torn apart by a death may  *)
(* be forgotten by the counter, never counted twice.                         *)
RetiredForReviews ==
    \A c \in Caller :
        call[c].at = "rewrite" /\ Due(call[c]) =>
            LET h == call[c].entry.history
            IN  Cardinality({i \in DOMAIN h : h[i].to = "DEGRADED"}) >= RetireAfter
================================================================================
