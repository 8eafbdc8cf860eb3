------------------------------- MODULE Workbench -------------------------------
(***************************************************************************)
(* A user's machine with its project file, the command line in several     *)
(* terminals (apps/cli/main.py, core/project.py) and the desktop window    *)
(* (apps/desktop/main.py): who reads, evaluates and writes what, and when. *)
(* project.json is truncated and then written, in place; its owner edits   *)
(* it by hand; licenses expire and machines change under running commands. *)
(* The commands hardware, edition and show print and leave no trace.       *)
(***************************************************************************)
EXTENDS Sizing, Profiler, Entitlements

CONSTANTS
    Terminals,
    Machines,      \* what the machine may become
    LicenseFiles,  \* license files that may be installed
    Worlds,        \* a machine and a license file to begin with
    ModelSizes,    \* sizes given to create
    Contexts,      \* context lengths: of recommend, or edited into the file
    NoContext,     \* --context-length is not given
    Trainings,     \* training knobs: of recommend, or edited into the file
    Requests,      \* knobs given to recommend
    MaxCommands,   \* bound: commands and windows that are started
    MaxEvents,     \* bound: edits of the file, kills, changes of machine or license
    NoFile,        \* project.json does not exist
    Torn,          \* project.json is empty, or a mixture of two texts
    None           \* no hardware, no recommendation, no output

ASSUME InputsAssumption ==
    /\ Machines \subseteq MachineSpecs /\ Machines # {}
    /\ Worlds \subseteq Machines \X LicenseFiles
    /\ ModelSizes \subseteq Sizes
    /\ Requests \subseteq [training : Trainings, context : Contexts \cup {NoContext}]
    /\ LicenseFiles \subseteq Licenses \cup {NoLicense, Undecodable}
    /\ Contexts \subseteq Nat \ {0} /\ NoContext \notin Contexts
ASSUME TrainingsAssumption == Trainings \subseteq TrainingSpecs /\ DefaultTraining \in Trainings

\* The profiler reads 64 registry keys at most.
ASSUME KeysAssumption == \A m \in Machines : IsFiniteSet(m.keys)
ASSUME LimitsAssumption == {MaxCommands, MaxEvents} \subseteq Nat

VARIABLES
    readings,    \* of the machine as it is: what the profiler may return
    license, now,
    forcedFree,  \* SG2_EDITION is "free"
    file,        \* project.json
    pc,          \* where the command of each terminal is
    project,     \* the project that it has loaded or made, or None
    request,     \* the knobs that its recommend was given, or None
    printed,     \* what the last command of each terminal has printed
    window,      \* the desktop window, its timer, its thread and their queue
    intent,      \* what the user last asked the file to be, or None while that is undecided
    paid,        \* a license that was good when it was installed has been installed
    count        \* of what is bounded

world    == <<readings, license, now, forcedFree, paid>>
commands == <<pc, project, request, printed>>
vars     == <<world, commands, file, window, intent, count>>

\* The query of the profiler is answered, or is not.
Readings(m) == {Profile(m, TRUE), Profile(m, FALSE)}
AllReadings == {Readings(m) : m \in Machines}
Profiled    == UNION AllReadings

Architectures ==
    {ModelProfile(size) : size \in Sizes} \cup {WithContext(size, c) : size \in Sizes, c \in Contexts}
AllArchitectures == Architectures \cup {DefaultArchitecture(size) : size \in Sizes}

\* A FitResult, by the arguments that Evaluate makes it of.
Fits == [hardware : Profiled, size : Sizes, training : Trainings, arch : AllArchitectures]

Fit(hardware, size, training, arch) ==
    [hardware |-> hardware, size |-> size, training |-> training, arch |-> arch]

Value(fit) == Evaluate(fit.hardware, fit.size, fit.training, fit.arch)

\* ProjectConfig.  note is not in it: what its last writer has done.
Projects ==
    [size : Sizes, arch : Architectures, training : Trainings,
     hardware : Profiled \cup {None}, recommendation : Fits \cup {None},
     note : {"created", "refreshed", "edited"}]

ASSUME ValuesAssumption ==
    None \notin Terminals \cup Hardwares /\ {NoFile, Torn, None} \cap Projects = {}

\* What a command prints, or a window shows: the fits of all user-facing sizes, the plan
\* of a project, or an error.
Outputs ==
    [kind : {"recommend"}, fits : [DOMAIN USER_FACING_SIZES -> Fits]]
    \cup [kind : {"plan"}, project : Projects] \cup [kind : {"failure"}]

TypeOK ==
    /\ readings \in AllReadings /\ readings \subseteq Hardwares
    /\ license \in Licenses \cup {NoLicense, Undecodable} /\ now \in Times
    /\ forcedFree \in BOOLEAN /\ paid \in BOOLEAN
    /\ file \in Projects \cup {NoFile, Torn}
    /\ pc \in [Terminals -> {"idle", "profiling", "ready", "saving"}]
    /\ project \in [Terminals -> Projects \cup {None}]
    /\ request \in [Terminals -> Requests \cup {None}]
    /\ printed \in [Terminals -> Outputs \cup {None}]
    /\ window \in [state : {"closed", "detecting", "shown", "failed"}, timer : BOOLEAN,
                   detecting : BOOLEAN, queue : Seq(Outputs), shown : Outputs \cup {None},
                   renders : Nat]
    /\ intent = None \/ intent \in [size : Sizes, arch : Architectures, training : Trainings]
    /\ count \in [{"commands", "events"} -> Nat]

Closed == [state |-> "closed", timer |-> FALSE, detecting |-> FALSE, queue |-> << >>,
           shown |-> None, renders |-> 0]

\* A license is good while it is signed, not expired, and of a paid edition.
Good(l, time) ==
    /\ l \notin {NoLicense, Undecodable}
    /\ l.signed /\ l.edition \in {"pro", "enterprise"}
    /\ l.expires \in {t \in Times : time <= t} \cup {Never}

Init ==
    /\ \E w \in Worlds : readings = Readings(w[1]) /\ license = w[2]
    /\ now = 0
    /\ forcedFree = FALSE
    /\ paid = Good(license, 0)
    /\ file = NoFile
    /\ pc = [t \in Terminals |-> "idle"]
    /\ project = [t \in Terminals |-> None]
    /\ request = [t \in Terminals |-> None]
    /\ printed = [t \in Terminals |-> None]
    /\ window = Closed
    /\ intent = None
    /\ count = [x \in {"commands", "events"} |-> 0]

Granted == Features(forcedFree, license, now)

Bounded(x, max) == count[x] < max /\ count' = [count EXCEPT ![x] = @ + 1]

-----------------------------------------------------------------------------
(***************************************************************************)
(* The commands.  _load_project ends a command when the file is missing or *)
(* does not parse.                                                         *)
(***************************************************************************)
Loadable == file \notin {NoFile, Torn}

Start(t) ==
    /\ pc[t] = "idle"
    /\ printed' = [printed EXCEPT ![t] = None]
    /\ Bounded("commands", MaxCommands)

\* create_project.
NewProject(size) ==
    [size |-> size, arch |-> ModelProfile(size), training |-> DefaultTraining,
     hardware |-> None, recommendation |-> None, note |-> "created"]

\* project create: the size is gated, and profiled when --with-hardware is given.
Create(t) ==
    /\ Start(t)
    /\ \E size \in ModelSizes, withHardware \in BOOLEAN :
         /\ RequiredFeature(size) \in Granted
         /\ pc' = [pc EXCEPT ![t] = IF withHardware THEN "profiling" ELSE "ready"]
         /\ project' = [project EXCEPT ![t] = NewProject(size)]
    /\ UNCHANGED <<world, request, file, window, intent>>

Refresh(t) ==
    /\ Start(t)
    /\ Loadable
    /\ pc' = [pc EXCEPT ![t] = "profiling"]
    /\ project' = [project EXCEPT ![t] = [file EXCEPT !.note = "refreshed"]]
    /\ UNCHANGED <<world, request, file, window, intent>>

RecommendSizes(t) ==
    /\ Start(t)
    /\ pc' = [pc EXCEPT ![t] = "profiling"]
    /\ \E r \in Requests :
         request' = [request EXCEPT ![t] = r]
    /\ UNCHANGED <<world, project, file, window, intent>>

\* pipeline plan, whose Pipeline asks for the entitlements.
Plan(t) ==
    /\ pc[t] = "idle"
    /\ Bounded("commands", MaxCommands)
    /\ Loadable
    /\ Resolvable(forcedFree, license)
    /\ printed' = [printed EXCEPT ![t] = [kind |-> "plan", project |-> file]]
    /\ UNCHANGED <<world, pc, project, request, file, window, intent>>

\* Variant: a refresh evaluates the default architecture.
EvaluateDefault(p, hardware) ==
    [p EXCEPT !.hardware = hardware,
              !.recommendation = Fit(hardware, p.size, p.training, DefaultArchitecture(p.size))]

\* Variant: a refresh makes the project anew.
ResetOnRefresh(p, hardware) ==
    [NewProject(p.size) EXCEPT !.hardware = hardware, !.note = p.note,
        !.recommendation = Fit(hardware, p.size, DefaultTraining, ModelProfile(p.size))]

\* What a new profile makes of a project: refresh_recommendation, and for create the fit
\* of the size with the default architecture.
WithHardware(p, hardware) ==
    [p EXCEPT !.hardware = hardware,
              !.recommendation =
                IF p.note = "created"
                THEN Fit(hardware, p.size, DefaultTraining, DefaultArchitecture(p.size))
                ELSE Fit(hardware, p.size, p.training, p.arch)]

\* recommend, with and without a context length.
Recommendation(hardware, training, context) ==
    [kind |-> "recommend",
     fits |-> [i \in DOMAIN USER_FACING_SIZES |->
                LET size == USER_FACING_SIZES[i]
                IN  Fit(hardware, size, training,
                        IF context = NoContext THEN DefaultArchitecture(size)
                        ELSE WithContext(size, context))]]

\* The profiler returns to a command that prints.
PrintRecommendation(t) ==
    /\ pc[t] = "profiling"
    /\ project[t] = None
    /\ pc' = [pc EXCEPT ![t] = "idle"]
    /\ \E hardware \in readings :
         printed' = [printed EXCEPT ![t] =
            Recommendation(hardware, request[t].training, request[t].context)]
    /\ request' = [request EXCEPT ![t] = None]
    /\ UNCHANGED <<world, project, file, window, intent, count>>

\* The profiler returns to a command that saves.
AddHardware(t) ==
    /\ pc[t] = "profiling"
    /\ project[t] # None
    /\ pc' = [pc EXCEPT ![t] = "ready"]
    /\ \E hardware \in readings : project' = [project EXCEPT ![t] = WithHardware(@, hardware)]
    /\ UNCHANGED <<world, request, printed, file, window, intent, count>>

\* ProjectConfig.save, its first half: write_text has truncated the file.
BeginSave(t) ==
    /\ pc[t] = "ready"
    /\ pc' = [pc EXCEPT ![t] = "saving"]
    /\ file' = Torn
    /\ UNCHANGED <<world, project, request, printed, window, intent, count>>

\* Commands that hold what was the file before, and will write it.
Stale(t) == {u \in Terminals \ {t} : project[u] # None /\ project[u].note = "refreshed"}

Content(p) == [size |-> p.size, arch |-> p.arch, training |-> p.training]

\* Its second half.  When another text has come in between, the tail of it may remain.
EndSave(t) ==
    /\ pc[t] = "saving"
    /\ pc' = [pc EXCEPT ![t] = "idle"]
    /\ file' \in IF file = Torn THEN {project[t]} ELSE {project[t], Torn}
    /\ intent' = IF project[t].note # "created" THEN intent
                 ELSE IF Stale(t) = {} THEN Content(project[t]) ELSE None
    /\ project' = [project EXCEPT ![t] = None]
    /\ UNCHANGED <<world, request, printed, window, count>>

\* A command is killed, or the profiler raises.
Kill(t) ==
    /\ pc[t] \in {"profiling", "saving"}
    /\ Bounded("events", MaxEvents)
    /\ pc' = [pc EXCEPT ![t] = "idle"]
    /\ project' = [project EXCEPT ![t] = None]
    /\ request' = [request EXCEPT ![t] = None]
    /\ UNCHANGED <<world, printed, file, window, intent>>

-----------------------------------------------------------------------------
(***************************************************************************)
(* The user, the machine and the clock.                                    *)
(***************************************************************************)
\* The user edits knobs in the file with a text editor, which saves at once.
Edit ==
    /\ Loadable
    /\ Bounded("events", MaxEvents)
    /\ \E training \in Trainings, context \in Contexts :
         file' = [file EXCEPT !.training = training, !.note = "edited",
                              !.arch = WithContext(file.size, context)]
    /\ intent' = IF Stale(None) = {} THEN Content(file') ELSE None
    /\ UNCHANGED <<world, commands, window>>

ChangeMachine ==
    /\ Bounded("events", MaxEvents)
    /\ readings' \in AllReadings \ {readings}
    /\ UNCHANGED <<license, now, forcedFree, paid, commands, file, window, intent>>

InstallLicense ==
    /\ Bounded("events", MaxEvents)
    /\ license' \in LicenseFiles \ {license}
    /\ paid' = (paid \/ Good(license', now))
    /\ UNCHANGED <<readings, now, forcedFree, commands, file, window, intent>>

SetEnvironment ==
    /\ Bounded("events", MaxEvents)
    /\ forcedFree' = ~forcedFree
    /\ UNCHANGED <<readings, license, now, paid, commands, file, window, intent>>

Tick ==
    /\ now + 1 \in Times
    /\ now' = now + 1
    /\ UNCHANGED <<readings, license, forcedFree, paid, commands, file, window, intent, count>>

-----------------------------------------------------------------------------
(***************************************************************************)
(* The desktop window: an event loop with a timer, and one daemon thread.  *)
(***************************************************************************)
Open ==
    /\ window.state = "closed"
    /\ Resolvable(forcedFree, license)
    /\ Bounded("commands", MaxCommands)
    /\ window' = [Closed EXCEPT !.state = "detecting", !.timer = TRUE, !.detecting = TRUE]
    /\ UNCHANGED <<world, commands, file, intent>>

\* _detect: the recommendations, or the exception that was raised.
Detect ==
    /\ window.detecting
    /\ \E answer \in {[kind |-> "failure"]} \cup
            {Recommendation(hardware, DefaultTraining, NoContext) : hardware \in readings} :
         window' = [window EXCEPT !.detecting = FALSE, !.queue = Append(@, answer)]
    /\ UNCHANGED <<world, commands, file, intent, count>>

\* Variant: an empty queue ends the polling.
PollOnce(w) ==
    IF w.queue = << >> THEN [w EXCEPT !.timer = FALSE]
    ELSE [w EXCEPT !.timer = FALSE, !.queue = Tail(@), !.shown = Head(w.queue), !.renders = @ + 1,
                   !.state = IF Head(w.queue).kind = "failure" THEN "failed" ELSE "shown"]

\* poll, when its timer is due: an empty queue sets the timer again.
Polled(w) ==
    IF w.queue = << >> THEN w
    ELSE [w EXCEPT !.timer = FALSE, !.queue = Tail(@), !.shown = Head(w.queue), !.renders = @ + 1,
                   !.state = IF Head(w.queue).kind = "failure" THEN "failed" ELSE "shown"]

Poll ==
    /\ window.timer
    /\ window' = Polled(window)
    /\ UNCHANGED <<world, commands, file, intent, count>>

\* The main loop ends, and the thread with its process.
Close ==
    /\ window.state # "closed"
    /\ window' = Closed
    /\ UNCHANGED <<world, commands, file, intent, count>>

-----------------------------------------------------------------------------
Run(t) == PrintRecommendation(t) \/ AddHardware(t) \/ BeginSave(t) \/ EndSave(t)

Next ==
    \/ \E t \in Terminals :
         Create(t) \/ Refresh(t) \/ RecommendSizes(t) \/ Plan(t) \/ Run(t) \/ Kill(t)
    \/ Edit \/ ChangeMachine \/ InstallLicense \/ SetEnvironment \/ Tick
    \/ Open \/ Detect \/ Poll \/ Close

\* The operating system schedules commands and threads, every probe has a timeout, and
\* the event loop fires its timers.
Fairness ==
    /\ \A t \in Terminals : WF_vars(Run(t))
    /\ WF_vars(Detect) /\ WF_vars(Poll)

Spec == Init /\ [][Next]_vars /\ Fairness

-----------------------------------------------------------------------------
(***************************************************************************)
(* Properties.                                                             *)
(***************************************************************************)
\* The model and the training knobs in the file are what its user last made them, whatever
\* commands run, overtake each other or are killed, unless an edit came between the load
\* and the save of a refresh, which writes back what it has loaded.
EditsSurvive == Loadable /\ intent # None => Content(file) = intent

\* A key that the profiler takes for an adapter's says what an adapter of the machine has: a
\* card that was taken out has left none behind.
RegistryIsCurrent(m) ==
    \A key \in m.keys, i \in DOMAIN m.adapters :
        ~m.adapters[i].basic /\ Matches(key, m.adapters[i].name) =>
            \E j \in DOMAIN m.adapters :
                ~m.adapters[j].basic /\ key.memory <= m.adapters[j].memory

\* The adapter in a profile is one of the machine's; no discrete one is passed over; its
\* memory is at least what its 32-bit field says, and no more than some adapter has,
\* unless the registry still speaks of one that is gone.
GpuIsPresent(hardware) ==
    \E m \in Machines :
        LET real == {i \in DOMAIN m.adapters : ~m.adapters[i].basic}
        IN  \/ hardware.gpu = NoGpu
            \/ /\ \E i \in real : /\ hardware.gpu.vendor = m.adapters[i].vendor
                                  /\ AdapterRam(m.adapters[i]) <= hardware.gpu.memory
               /\ RegistryIsCurrent(m) =>
                      \E i \in real : hardware.gpu.memory <= m.adapters[i].memory
               /\ (\E i \in real : Discrete(m.adapters[i])) => Discrete(hardware.gpu)

\* The recommendation in the file is for the hardware beside it, which exists, and for the
\* project's own knobs after a refresh, for the default architecture after a create; only
\* an edit makes it out of date.  A plan of a project that has just been refreshed asks for
\* no less than its recommendation.
AdviceFitsProject ==
    /\ Loadable /\ file.hardware # None =>
         /\ GpuIsPresent(file.hardware)
         /\ file.note # "edited" =>
              file.recommendation =
                Fit(file.hardware, file.size, file.training,
                    IF file.note = "created" THEN DefaultArchitecture(file.size) ELSE file.arch)
    /\ \A t \in Terminals :
         printed[t] # None /\ printed[t].kind = "plan" /\ printed[t].project.note = "refreshed" =>
            LET p       == printed[t].project
                advised == Value(p.recommendation)
                planned == Evaluate(p.hardware, p.size, p.training, p.arch)
            IN  /\ advised.required <= PlanMemory(p.size, planned.required)
                /\ advised.disk <= PlanDisk(p.size, planned.disk)

\* The fit g is at most as good as f.
NoBetter(g, f) ==
    f.status <= g.status /\ f.hours[1] <= g.hours[1] /\ f.hours[2] <= g.hours[2]

\* Hardware h has at least what k has, of the same kind, and both have free disk at all.
AtLeastAs(h, k) ==
    /\ h.gpu.vendor = k.gpu.vendor /\ k.gpu.memory <= h.gpu.memory
    /\ k.cores <= h.cores /\ k.available <= h.available
    /\ 0 < Round(k.free, 10) /\ k.free <= h.free

\* In one answer a larger model never looks better than a smaller one; and in two answers,
\* of whichever terminal or window, for the same knobs, the machine that has at least what
\* the other one has, cores, memory, free disk and adapter memory, is never told worse.
AdviceIsMonotone ==
    LET answers == {x \in {printed[t] : t \in Terminals} \cup {window.shown} :
                      x # None /\ x.kind = "recommend"}
        Values  == [x \in answers |-> [i \in DOMAIN x.fits |-> Value(x.fits[i])]]
    IN  \A x \in answers, i, j \in DOMAIN USER_FACING_SIZES :
          /\ i < j => /\ NoBetter(Values[x][j], Values[x][i])
                      /\ Values[x][i].required <= Values[x][j].required
          /\ \A y \in answers :
               /\ x.fits[i].training = y.fits[i].training /\ x.fits[i].arch = y.fits[i].arch
               /\ AtLeastAs(y.fits[i].hardware, x.fits[i].hardware)
               => NoBetter(Values[x][i], Values[y][i])

Larger(p) == p \notin {NoFile, Torn, None} /\ Millions(p.size) > 100

\* Paid features are granted only while a good license is installed, the passing of time
\* never grants any, and no project of a larger model exists, in the file or in a command,
\* before a good license was installed.
OnlyALicenseGrants ==
    [][ /\ Granted' \subseteq FREE_FEATURES \/ (Good(license', now') /\ ~forcedFree')
        /\ license' = license /\ forcedFree' = forcedFree => Granted' \subseteq Granted
        /\ Larger(file') \/ (\E t \in Terminals : Larger(project'[t])) => paid' ]_vars

\* A window that detects ends up showing the recommendations or the error, unless it is
\* closed, and renders once; and every command ends, however long its probes take and
\* whatever else runs.
WindowAnswers ==
    /\ [][window'.renders <= 1]_vars
    /\ (window.state = "detecting") ~> (window.state # "detecting")
    /\ \A t \in Terminals : (pc[t] # "idle") ~> (pc[t] = "idle")
=============================================================================
