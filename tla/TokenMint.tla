----------------------------- MODULE TokenMint ------------------------------
(***************************************************************************)
(* The installation token of one GitHub App candidate, shared by every     *)
(* source of the daemon (internal/tokenauth/source.go).  The first caller  *)
(* that finds no usable token mints one for everybody; the others wait for *)
(* its answer.  The mint runs under the first caller's context, a provider *)
(* may refuse a token at any time, and a changed descriptor evicts it.     *)
(*                                                                         *)
(* Every mint has an entry of its own; the map points at the newest.  The  *)
(* model reuses an entry nobody refers to, so a caller and the map need no *)
(* more entries than there are callers, and one.                           *)
(***************************************************************************)
EXTENDS Integers, FiniteSets

CONSTANT Callers

\* What the constant must satisfy; an instance assumes it.
TokenConstants == IsFiniteSet(Callers)

Entries == 1 .. Cardinality(Callers) + 1

NoEntry == 0

VARIABLES
    cached,       \* tokens[key]: the entry the map points at
    entry,        \* what each entry holds
    over,         \* entries past their refresh point or retry time
    invalidated,  \* entries marked invalidated
    phase,        \* where each caller is in resolve, or what it returned
    on,           \* the entry a caller mints, waits for or got its answer from
    ended,        \* callers whose context ended
    refused       \* entries whose token the provider refused before it expired

vars == << cached, entry, over, invalidated, phase, on, ended, refused >>

Answers == {"token", "error", "canceled"}

TypeOK ==
    /\ cached \in Entries \union {NoEntry}
    /\ entry \in [Entries -> {"unused", "minting"} \union Answers]
    /\ over \in SUBSET Entries
    /\ invalidated \in SUBSET Entries
    /\ phase \in [Callers -> {"idle", "resolving", "minting", "waiting"} \union Answers]
    /\ on \in [Callers -> Entries \union {NoEntry}]
    /\ ended \in SUBSET Callers
    /\ refused \in SUBSET Entries

Init ==
    /\ cached = NoEntry
    /\ entry = [e \in Entries |-> "unused"]
    /\ over = {}
    /\ invalidated = {}
    /\ phase = [c \in Callers |-> "idle"]
    /\ on = [c \in Callers |-> NoEntry]
    /\ ended = {}
    /\ refused = {}

Goto(c, p, e) ==
    /\ phase' = [phase EXCEPT ![c] = p]
    /\ on' = [on EXCEPT ![c] = e]

entries == << cached, entry, over, invalidated, refused >>

Cooling(e) == entry[e] = "error" /\ e \notin over

Fresh(e) == entry[e] = "token" /\ e \notin over

-----------------------------------------------------------------------------
(* resolve. *)

Ask(c) ==
    /\ phase[c] \in {"idle"} \union Answers
    /\ Goto(c, "resolving", NoEntry)
    /\ ended' = ended \ {c}
    /\ UNCHANGED entries

EndContext(c) ==
    /\ phase[c] \in {"resolving", "minting", "waiting"}
    /\ ended' = ended \union {c}
    /\ UNCHANGED << entries, phase, on >>

\* One turn of the loop finds the answer, or a mint to wait for.
LookUp(c) ==
    /\ phase[c] = "resolving"
    /\ cached # NoEntry
    /\ \/ Cooling(cached) /\ Goto(c, "error", cached)
       \/ Fresh(cached) /\ Goto(c, "token", cached)
       \/ entry[cached] = "minting" /\ Goto(c, "waiting", cached)
    /\ UNCHANGED << entries, ended >>

Usable(e) == Cooling(e) \/ Fresh(e) \/ entry[e] = "minting"

Unreferenced(e) == e # cached /\ \A c \in Callers : on[c] # e

\* It finds nothing usable: the caller replaces the entry and mints.
BeginMint(c) ==
    /\ phase[c] = "resolving"
    /\ cached # NoEntry => ~Usable(cached)
    /\ LET e == CHOOSE e \in Entries : Unreferenced(e) IN
        /\ cached' = e
        /\ entry' = [entry EXCEPT ![e] = "minting"]
        /\ over' = over \ {e}
        /\ invalidated' = invalidated \ {e}
        /\ refused' = refused \ {e}
        /\ Goto(c, "minting", e)
    /\ UNCHANGED ended

CancelIsAnError(c) ==                                              \* mutant
    /\ phase[c] = "minting"
    /\ \E a \in Answers :
        /\ a = "canceled" => c \in ended
        /\ entry' = [entry EXCEPT ![on[c]] = a]
        /\ Goto(c, a, on[c])
    /\ UNCHANGED << cached, invalidated, over, ended, refused >>

\* The mint answers.  The end of the caller's own context is no answer for
\* the others: the entry is marked and leaves the map.
EndMint(c) ==
    LET e == on[c] IN
    /\ phase[c] = "minting"
    /\ \E a \in Answers :
        /\ a = "canceled" => c \in ended
        /\ entry' = [entry EXCEPT ![e] = a]
        /\ invalidated' = IF a = "canceled" THEN invalidated \union {e} ELSE invalidated
        /\ cached' = IF cached = e /\ a = "canceled" THEN NoEntry ELSE cached
        /\ Goto(c, a, e)
    /\ UNCHANGED << over, ended, refused >>

\* A waiter's turn after the mint: an invalidated entry sends it back.
Wake(c) ==
    LET e == on[c] IN
    /\ phase[c] = "waiting"
    /\ entry[e] # "minting"
    /\ IF e \in invalidated THEN Goto(c, "resolving", NoEntry) ELSE Goto(c, entry[e], e)
    /\ UNCHANGED << entries, ended >>

\* A waiter whose context ended stops waiting, also when the answer is there.
StopWaiting(c) ==
    /\ phase[c] = "waiting"
    /\ c \in ended
    /\ Goto(c, "canceled", NoEntry)
    /\ UNCHANGED << entries, ended >>

-----------------------------------------------------------------------------

\* Time passes: a token reaches its refresh point, a failure its retry time.
Elapse ==
    /\ cached # NoEntry
    /\ entry[cached] \in {"token", "error"}
    /\ over' = over \union {cached}
    /\ UNCHANGED << cached, entry, invalidated, refused, phase, on, ended >>

\* evictCompleted, after a changed descriptor: a mint in flight and a
\* failure that cools down stay.
EvictCompleted ==
    /\ cached # NoEntry
    /\ entry[cached] # "minting"
    /\ ~Cooling(cached)
    /\ invalidated' = invalidated \union {cached}
    /\ cached' = NoEntry
    /\ UNCHANGED << entry, over, refused, phase, on, ended >>

\* The provider refuses the token a caller holds (a 401): invalidateToken
\* drops the entry when it is still the one in the map.
Refuse(c) ==
    LET e == on[c] IN
    /\ phase[c] = "token"
    /\ refused' = IF e \in over THEN refused ELSE refused \union {e}
    /\ IF cached = e
         THEN cached' = NoEntry /\ invalidated' = invalidated \union {e}
         ELSE UNCHANGED << cached, invalidated >>
    /\ UNCHANGED << entry, over, phase, on, ended >>

Next ==
    \/ \E c \in Callers :
        \/ Ask(c) \/ EndContext(c) \/ LookUp(c) \/ BeginMint(c) \/ EndMint(c)
        \/ Wake(c) \/ StopWaiting(c) \/ Refuse(c)
    \/ Elapse \/ EvictCompleted

Spec == Init /\ [][Next]_vars

-----------------------------------------------------------------------------
(* Properties. *)

\* Mints of a candidate never overlap, though each is made on its caller's own
\* context, and an entry that was canceled, refused or evicted leaves the map
\* while others still wait on it.
MintsAlone == \A c, d \in Callers : phase[c] = "minting" /\ phase[d] = "minting" => c = d

\* Nobody gets an answer that is another caller's affair: a caller is told
\* its context ended only when it did, although the mint it waited for ran
\* under somebody else's, and no caller is handed a token that the provider
\* had refused before the caller returned from resolve.
AnswersAreOwn ==
    [][\A c \in Callers :
        phase'[c] # phase[c] =>
            /\ phase'[c] = "canceled" => c \in ended
            /\ phase'[c] = "token" => on'[c] \notin refused]_vars
=============================================================================
