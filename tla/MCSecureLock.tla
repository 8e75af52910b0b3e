---------------------------- MODULE MCSecureLock ----------------------------
(***************************************************************************)
(* Small instances of the locker endpoint and of what the secure prompt is *)
(* made of: its buffers, and its slots, asked and answered, and guessed at *)
(* with a delay.  They share no state: each is explored by itself.         *)
(***************************************************************************)
EXTENDS Locker, SecurePrompt, SecretBuffer, TLC

CONSTANTS
    Parts,   \* those of "locker", "pool", "backoff" and "buffer" to explore
    c1, c2, c3, left, right, p1, p2, p3, narrow, wide, pair

Interchangeable == Permutations(Clients) \cup Permutations(Outputs)

\* One byte, two bytes, and four bytes that are two UTF-16 units
Widths == (narrow :> 1) @@ (wide :> 2) @@ (pair :> 4)

VARIABLE part   \* the one that moves

\* All the prompts, and failures that count once
Pool == INSTANCE SecurePrompt WITH
    BaseDelay <- 1, MaxDelay <- 1, MaxFailures <- 1, MaxTime <- 2

ASSUME PartsAssumption == Pool!PromptAssumption

allVars == <<part, vars, promptVars, bufferVars>>

RunInit ==
    /\ part \in Parts
    /\ Init
    /\ PromptInit
    /\ BufferInit

\* Only one of the outputs' prompts is made to wait.
OneWaits == Cardinality({o \in Outputs : waiting[o]}) <= 1

\* Guesses at one prompt, for long
OneIsUsed == Living \subseteq {p1}

OnlyMoves(p) ==
    /\ part = p /\ part' = p
    /\ IF p = "locker" THEN TRUE ELSE UNCHANGED vars
    /\ IF p \in {"pool", "backoff"} THEN TRUE ELSE UNCHANGED promptVars
    /\ IF p = "buffer" THEN TRUE ELSE UNCHANGED bufferVars

RunNext ==
    \/ OnlyMoves("locker") /\ Next /\ OneWaits'
    \/ OnlyMoves("pool") /\ Pool!PromptNext
    \/ OnlyMoves("backoff") /\ PromptNext /\ OneIsUsed'
    \/ OnlyMoves("buffer") /\ BufferNext

RunSpec == RunInit /\ [][RunNext]_allVars
=============================================================================
