-------------------------------- MODULE Gpu --------------------------------
(***************************************************************************)
(* The GPU of the dashboard (Gpu): its type, set by the user or found out, *)
(* its name, found by asking one program after another, and its usage,     *)
(* sampled by each tick.  Programs run beside the shell and end when they  *)
(* like; a new resolution supersedes what is still under way.              *)
(***************************************************************************)
EXTENDS Integers, FiniteSets

CONSTANTS
    BusyFiles,       \* whether a card has a busy file
    MaxGenerations   \* bound on m_generation

ASSUME GpuAssumption == BusyFiles \in BOOLEAN /\ MaxGenerations \in Nat \ {0}

Types == {"Nvidia", "Generic", "None"}
UserTypes == Types \cup {"Auto"}

\* nvidia-smi, glxinfo and lspci, in this order
Sources == 0..2
Nvidia == 0
FirstGeneric == 1
Sample == 3          \* the query of the usage

\* A name is the source it came from, or one of these.
Detecting == 3
NoName == 4

VARIABLES
    userType, gpuType, gpuName,  \* m_userType, m_type, m_name
    named,                 \* the generation that it was found for
    gpuUsage,              \* whether m_percentage and m_temperature say more than 0
    generation, querying,  \* m_generation, m_nvidiaQuerying
    gpuRunning,            \* the service is in use
    procs                  \* programs that run: [asks, generation]
gpuVars == <<userType, gpuType, gpuName, named, gpuUsage, generation, querying,
             gpuRunning, procs>>

Proc(asks, g) == [asks |-> asks, generation |-> g]

\* setType
SetType(t) ==
    /\ gpuType' = t
    /\ gpuUsage' = IF t = "None" /\ t # gpuType THEN FALSE ELSE gpuUsage

\* setName
SetName(n, g) == gpuName' = n /\ named' = g

\* probeEnd
ProbeEnd == IF userType = "Nvidia" THEN FirstGeneric ELSE 3

\* ---------------------------------------------------------- resolution

\* resolveGpu; a chain that is under way goes on and will be ignored.
ResolveGpu(user, g, ps) ==
    /\ userType' = user /\ generation' = g
    /\ IF user = "Auto" THEN UNCHANGED <<gpuType, gpuUsage>> ELSE SetType(user)
    /\ IF user = "None" THEN SetName(NoName, g) /\ procs' = ps
       ELSE /\ SetName(Detecting, g)
            /\ procs' = ps \cup {Proc(IF user = "Generic" THEN FirstGeneric ELSE Nvidia, g)}

\* gpuTypeChanged
SetUserType(user) ==
    /\ user # userType /\ generation < MaxGenerations
    /\ ResolveGpu(user, generation + 1, procs)
    /\ UNCHANGED <<querying, gpuRunning>>

\* The type that nvidia-smi's answer tells
Found(answer) == IF answer THEN "Nvidia" ELSE IF BusyFiles THEN "Generic" ELSE "None"

\* Whoever asked, the answer counts.
MutSuperseded(g) == FALSE

\* The answer is for a resolution that is no longer the newest.
Superseded(g) == g # generation

\* Under Auto, nvidia-smi tells the type, too.
Probes(p) == userType = "Auto" /\ p.asks = Nvidia

\* finishNameSource: the program printed a name, or failed in one way or
\* another; the next one is asked if there is one left.
FinishNameSource(p, answer) ==
    /\ p \in procs /\ p.asks \in Sources
    /\ UNCHANGED <<userType, generation, querying, gpuRunning>>
    /\ LET others == procs \ {p}
           found == IF Probes(p) THEN Found(answer) ELSE gpuType IN
       \/ /\ Superseded(p.generation)
          /\ procs' = others /\ UNCHANGED <<gpuType, gpuUsage, gpuName, named>>
       \/ /\ ~Superseded(p.generation)
          /\ SetType(found)
          /\ IF Probes(p) /\ found = "None"
             THEN SetName(NoName, p.generation) /\ procs' = others
             ELSE IF answer THEN SetName(p.asks, p.generation) /\ procs' = others
             ELSE IF p.asks + 1 < ProbeEnd
             THEN /\ procs' = others \cup {Proc(p.asks + 1, p.generation)}
                  /\ UNCHANGED <<gpuName, named>>
             ELSE SetName(NoName, p.generation) /\ procs' = others

\* --------------------------------------------------------------- usage

\* m_nvidiaQuerying
MayQuery == ~querying

ReadGenericUsage(busy) == gpuUsage' = busy /\ UNCHANGED <<querying, procs>>
StartNvidiaUsage ==
    /\ MayQuery
    /\ querying' = TRUE /\ procs' = procs \cup {Proc(Sample, generation)}
    /\ UNCHANGED gpuUsage
ResetUsage == gpuUsage' = FALSE /\ UNCHANGED <<querying, procs>>

\* tick: the files of the cards are read at once, nvidia-smi answers later.
Tick(busy) ==
    /\ gpuRunning
    /\ \/ gpuType = "Generic" /\ ReadGenericUsage(busy)
       \/ gpuType = "Nvidia" /\ StartNvidiaUsage
       \/ gpuType = "None" /\ ResetUsage
    /\ UNCHANGED <<userType, gpuType, gpuName, named, generation, gpuRunning>>

\* The answer of nvidia-smi; one it could not give leaves usage as it is.
FinishSample(p, busy) ==
    /\ p \in procs /\ p.asks = Sample
    /\ procs' = procs \ {p} /\ querying' = FALSE
    /\ gpuUsage' = IF Superseded(p.generation) THEN gpuUsage ELSE busy
    /\ UNCHANGED <<userType, gpuType, gpuName, named, generation, gpuRunning>>

\* start and stop of the service; its start ticks, which Tick may do next.
StartOrStop ==
    /\ gpuRunning' = ~gpuRunning
    /\ UNCHANGED <<userType, gpuType, gpuName, named, gpuUsage, generation, querying, procs>>

\* The constructor resolves what the settings ask for.
GpuInit ==
    /\ userType \in UserTypes /\ generation = 1
    /\ gpuType = (IF userType = "Auto" THEN "None" ELSE userType)
    /\ gpuName = (IF userType = "None" THEN NoName ELSE Detecting) /\ named = 1
    /\ procs = (IF userType = "None" THEN {}
                ELSE {Proc(IF userType = "Generic" THEN FirstGeneric ELSE Nvidia, 1)})
    /\ gpuUsage = FALSE /\ querying = FALSE /\ gpuRunning = FALSE

GpuNext ==
    \/ \E p \in procs, b \in BOOLEAN : FinishNameSource(p, b) \/ FinishSample(p, b)
    \/ \E b \in BOOLEAN : Tick(b)
    \/ \E user \in UserTypes : SetUserType(user)
    \/ StartOrStop

GpuSpec == GpuInit /\ [][GpuNext]_gpuVars

\* Programs end, and the timer ticks while the service is in use.
Ends(p) == \E b \in BOOLEAN : FinishNameSource(p, b) \/ FinishSample(p, b)
Ticks == \E b \in BOOLEAN : Tick(b)
Asked == [asks : Sources \cup {Sample}, generation : 1..MaxGenerations]
GpuFairSpec == GpuSpec /\ WF_gpuVars(Ticks) /\ \A p \in Asked : WF_gpuVars(Ends(p))

\* --------------------------------------------------------- properties

\* At most one program asks on behalf of the newest resolution, and at most
\* one samples, when m_nvidiaQuerying says so.
GpuTypeOK ==
    /\ userType \in UserTypes /\ gpuType \in Types /\ gpuUsage \in BOOLEAN
    /\ gpuName \in Sources \cup {Detecting, NoName}
    /\ procs \subseteq Asked
    /\ Cardinality({p \in procs : p.asks \in Sources /\ p.generation = generation})
         = (IF gpuName = Detecting THEN 1 ELSE 0)
    /\ Cardinality({p \in procs : p.asks = Sample}) = (IF querying THEN 1 ELSE 0)

\* What is shown as the name was found for the type that is asked for now,
\* whatever order the programs end in (finishNameSource).
NameIsOfThisType ==
    /\ named = generation
    /\ userType = "Nvidia" => gpuName \in {Nvidia, Detecting, NoName}
    /\ userType = "Generic" => gpuName # Nvidia
    /\ userType = "None" => gpuName = NoName

\* A type the user chose is never replaced by one that was found out before.
ChoiceStays == userType # "Auto" => gpuType = userType

\* What is said of the GPU at any time, together.
GpuIsRight == GpuTypeOK /\ NameIsOfThisType /\ ChoiceStays

\* Detection ends, unless the user keeps changing the type.
NameSettles ==
    <>[][generation' = generation]_gpuVars => <>[](gpuName # Detecting)

\* An NVIDIA GPU is sampled again and again while the service is in use: no
\* query that was superseded keeps the next from being made.
SamplesGoOn ==
    <>[](gpuRunning /\ gpuType = "Nvidia") => []<>querying /\ []<>~querying

\* "The type moved out from under the sample, so it no longer describes the
\* GPU": a GPU there is not has no usage.
NoneHasNoUsage == gpuType = "None" => ~gpuUsage
=============================================================================
