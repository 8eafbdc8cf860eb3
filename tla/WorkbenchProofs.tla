---------------------------- MODULE WorkbenchProofs ----------------------------
(***************************************************************************)
(* Theorems about the project file and the editions, for any terminals,    *)
(* machines, licenses and knobs.                                           *)
(***************************************************************************)
EXTENDS Workbench, SizingProofs, TLAPS

-----------------------------------------------------------------------------
(***************************************************************************)
(* The invariants.                                                         *)
(***************************************************************************)
\* The part of TypeOK that the theorems need.
Types ==
    /\ readings \in AllReadings
    /\ license \in Licenses \cup {NoLicense, Undecodable} /\ now \in Nat
    /\ forcedFree \in BOOLEAN /\ paid \in BOOLEAN
    /\ file \in Projects \cup {NoFile, Torn}
    /\ pc \in [Terminals -> {"idle", "profiling", "ready", "saving"}]
    /\ project \in [Terminals -> Projects \cup {None}]

\* A command that is about to save has a project, which no user has edited.
Held ==
    \A t \in Terminals :
        /\ pc[t] \in {"ready", "saving"} => project[t] # None
        /\ project[t] # None => project[t].note \in {"created", "refreshed"}

\* While it is known what the user last asked for, the file says it, and so does every
\* refresh that will write the file.
Intended ==
    intent # None =>
        /\ Loadable => Content(file) = intent
        /\ \A t \in Stale(None) : Content(project[t]) = intent

\* There is no larger model without a license that was good when it was installed.
Licensed ==
    /\ Good(license, now) => paid
    /\ Larger(file) => paid
    /\ \A t \in Terminals : Larger(project[t]) => paid

WInv == Types /\ Held /\ Intended /\ Licensed

-----------------------------------------------------------------------------
(***************************************************************************)
(* Projects.                                                               *)
(***************************************************************************)
\* A project has fields, and is none of the values that stand for no project.
LEMMA ProjectFields ==
    ASSUME NEW p \in Projects
    PROVE  /\ p \notin {NoFile, Torn, None}
           /\ p.size \in Sizes /\ p.arch \in Architectures /\ p.training \in Trainings
BY ValuesAssumption DEF Projects

\* A file that loads is a project.
LEMMA LoadableIsProject == Types /\ Loadable => file \in Projects
BY DEF Types, Loadable

\* What create makes.
LEMMA NewProjectType ==
    ASSUME NEW size \in Sizes
    PROVE  /\ NewProject(size) \in Projects
           /\ NewProject(size).note = "created" /\ NewProject(size).size = size
BY TrainingsAssumption DEF NewProject, Projects, Architectures

\* What refresh loads.
LEMMA RefreshedType ==
    ASSUME NEW p \in Projects
    PROVE  LET q == [p EXCEPT !.note = "refreshed"] IN
           /\ q \in Projects /\ q.note = "refreshed" /\ q.size = p.size
           /\ Content(q) = Content(p)
BY DEF Projects, Content

\* What the profiler adds leaves the user's part of a project alone.
LEMMA WithHardwareType ==
    ASSUME NEW p \in Projects, NEW h \in Profiled
    PROVE  LET q == WithHardware(p, h) IN
           /\ q \in Projects /\ q.note = p.note /\ q.size = p.size
           /\ Content(q) = Content(p)
<1> DEFINE fit == IF p.note = "created"
                  THEN Fit(h, p.size, DefaultTraining, DefaultArchitecture(p.size))
                  ELSE Fit(h, p.size, p.training, p.arch)
           q == [p EXCEPT !.hardware = h, !.recommendation = fit]
<1>1. fit \in Fits
  <2>1. DefaultArchitecture(p.size) \in AllArchitectures /\ p.arch \in AllArchitectures
    BY ProjectFields DEF AllArchitectures
  <2> QED
    BY <2>1, ProjectFields, TrainingsAssumption DEF Fit, Fits
<1> HIDE DEF fit
<1>2. /\ q \in Projects /\ q.note = p.note /\ q.size = p.size
      /\ Content(q) = Content(p)
  BY <1>1 DEF Projects, Content
<1>3. WithHardware(p, h) = q
  BY DEF WithHardware, fit
<1> QED
  BY <1>2, <1>3

\* What an editor leaves.
LEMMA EditedType ==
    ASSUME NEW p \in Projects, NEW training \in Trainings, NEW context \in Contexts
    PROVE  LET q == [p EXCEPT !.training = training, !.note = "edited",
                              !.arch = WithContext(p.size, context)] IN
           q \in Projects /\ q.size = p.size
<1>1. WithContext(p.size, context) \in Architectures
  BY ProjectFields DEF Architectures
<1> QED
  BY <1>1 DEF Projects

-----------------------------------------------------------------------------
(***************************************************************************)
(* Licenses.                                                               *)
(***************************************************************************)
\* Anything beyond the free features is granted by a good license alone.
LEMMA GrantNeedsLicense ==
    ASSUME NEW l \in Licenses \cup {NoLicense, Undecodable}, NEW time \in Nat, NEW forced \in BOOLEAN,
           ~(Features(forced, l, time) \subseteq FREE_FEATURES)
    PROVE  Good(l, time) /\ ~forced
<1>1. /\ ~forced /\ l \notin {NoLicense, Undecodable} /\ l.signed /\ ~Expired(l, time)
      /\ l.edition \in {"pro", "enterprise"}
  <2>1. Resolvable(forced, l) /\ Features(forced, l, time) = FeaturesByEdition(Resolve(forced, l, time))
    BY DEF Features
  <2>2. Resolve(forced, l, time) # "free"
    BY <2>1 DEF FeaturesByEdition
  <2>3. ~forced /\ l # NoLicense
    BY <2>2 DEF Resolve
  <2>4. l \notin {NoLicense, Undecodable}
    BY <2>1, <2>3 DEF Resolvable
  <2> QED
    BY <2>2, <2>3, <2>4 DEF Resolve, Editions
<1>2. l.expires \in {x \in Times : time <= x} \cup {Never}
  <2>1. l.expires \in Times \cup {Never}
    BY <1>1 DEF Licenses, Expired
  <2>2. CASE l.expires \in Times
    <3>1. ~(time > l.expires)
      BY <1>1, <2>2 DEF Expired
    <3>2. l.expires \in Nat
      BY <2>2, TimesAssumption
    <3> QED
      BY <2>2, <3>1, <3>2
  <2> QED
    BY <2>1, <2>2
<1> QED
  BY <1>1, <1>2 DEF Good

\* A license that is good was good before.
LEMMA GoodBefore ==
    ASSUME NEW l, NEW time \in Nat, NEW later \in Nat, time <= later, Good(l, later)
    PROVE  Good(l, time)
<1>1. /\ l \notin {NoLicense, Undecodable} /\ l.signed /\ l.edition \in {"pro", "enterprise"}
      /\ l.expires \in {x \in Times : later <= x} \cup {Never}
  BY DEF Good
<1>2. l.expires \in {x \in Times : time <= x} \cup {Never}
  <2>1. CASE l.expires \in {x \in Times : later <= x}
    <3>1. l.expires \in Times /\ later <= l.expires
      BY <2>1
    <3>2. l.expires \in Nat
      BY <3>1, TimesAssumption
    <3>3. time <= l.expires
      BY <3>1, <3>2
    <3> QED
      BY <3>1, <3>3
  <2> QED
    BY <1>1, <2>1
<1> QED
  BY <1>1, <1>2 DEF Good

\* A good license is not expired.
LEMMA GoodIsNotExpired ==
    ASSUME NEW l, NEW time \in Nat, Good(l, time)
    PROVE  ~Expired(l, time)
<1>1. CASE l.expires \in {x \in Times : time <= x}
  <2>1. l.expires \in Times /\ time <= l.expires /\ l.expires \in Nat
    BY <1>1, TimesAssumption
  <2>2. ~(time > l.expires) /\ l.expires # Malformed
    BY <2>1, TimesAssumption
  <2> QED
    BY <2>1, <2>2 DEF Expired
<1>2. CASE l.expires = Never
  BY <1>2, TimesAssumption DEF Expired
<1> QED
  BY <1>1, <1>2 DEF Good

\* The clock takes features away and gives none.
LEMMA GrantsShrink ==
    ASSUME NEW l \in Licenses \cup {NoLicense, Undecodable}, NEW forced \in BOOLEAN,
           NEW time \in Nat, NEW later \in Nat, time <= later
    PROVE  Features(forced, l, later) \subseteq Features(forced, l, time)
<1> SUFFICES ASSUME Resolvable(forced, l)
             PROVE  Features(forced, l, later) \subseteq Features(forced, l, time)
  BY DEF Features
<1>1. FREE_FEATURES \subseteq Features(forced, l, time)
  <2>1. Resolve(forced, l, time) \in Editions
    BY DEF Resolve, Editions
  <2> QED
    BY <2>1 DEF Features, FeaturesByEdition, Editions, ENTERPRISE_FEATURES, PRO_FEATURES
<1>2. CASE Features(forced, l, later) \subseteq FREE_FEATURES
  BY <1>1, <1>2
<1>3. CASE ~(Features(forced, l, later) \subseteq FREE_FEATURES)
  <2>1. Good(l, later) /\ ~forced
    BY <1>3, GrantNeedsLicense
  <2>2. l \notin {NoLicense, Undecodable} /\ ~Expired(l, later) /\ ~Expired(l, time)
    BY <2>1, GoodBefore, GoodIsNotExpired DEF Good
  <2>3. Resolve(forced, l, later) = Resolve(forced, l, time)
    BY <2>1, <2>2 DEF Resolve
  <2> QED
    BY <2>3 DEF Features
<1> QED
  BY <1>2, <1>3

\* A larger model is granted by a good license alone.
LEMMA LargerNeedsLicense ==
    ASSUME Types, NEW size \in Sizes, RequiredFeature(size) \in Granted, Millions(size) > 100
    PROVE  Good(license, now)
<1>1. RequiredFeature(size) \notin FREE_FEATURES
  <2>1. RequiredFeature(size) = "model-size:>100M"
    <3>1. size \in {"20M", "50M", "100M", "200M", "500M"}
      BY DEF Sizes, ALL_SIZES
    <3>2. Millions(size) \in Nat
      BY <3>1 DEF Millions
    <3> QED
      BY <3>2 DEF RequiredFeature
  <2> QED
    BY <2>1 DEF FREE_FEATURES
<1> QED
  BY <1>1, GrantNeedsLicense DEF Granted, Types
-----------------------------------------------------------------------------
(***************************************************************************)
(* Every step keeps the invariant.                                         *)
(***************************************************************************)
\* What holds at the start.
LEMMA InitHolds == Init => WInv
<1> SUFFICES ASSUME Init PROVE WInv
  OBVIOUS
<1>1. PICK w \in Worlds : readings = Readings(w[1]) /\ license = w[2]
  BY DEF Init
<1>2. w[1] \in Machines /\ w[2] \in Licenses \cup {NoLicense, Undecodable}
  BY InputsAssumption
<1>3. paid = Good(license, 0) /\ now = 0 /\ file = NoFile /\ intent = None
  BY DEF Init
<1>4. paid \in BOOLEAN
  BY <1>3 DEF Good
<1>5. Types
  <2>1. readings \in AllReadings /\ license \in Licenses \cup {NoLicense, Undecodable}
    BY <1>1, <1>2 DEF AllReadings
  <2>2. now \in Nat /\ file \in Projects \cup {NoFile, Torn}
    BY <1>3
  <2>3. /\ pc \in [Terminals -> {"idle", "profiling", "ready", "saving"}]
        /\ project \in [Terminals -> Projects \cup {None}]
    BY DEF Init
  <2>4. forcedFree \in BOOLEAN
    BY DEF Init
  <2> QED
    BY <1>4, <2>1, <2>2, <2>3, <2>4 DEF Types
<1>6. Held /\ Intended
  BY DEF Init, Held, Intended
<1>7. Licensed
  BY <1>3 DEF Init, Licensed, Larger
<1> QED
  BY <1>5, <1>6, <1>7 DEF WInv

\* Steps that touch neither the file, nor a project, nor the license.
LEMMA FrameKeeps ==
    ASSUME WInv, UNCHANGED <<license, now, paid, file, project, intent>>,
           readings' \in AllReadings, forcedFree' \in BOOLEAN,
           pc' \in [Terminals -> {"idle", "profiling", "ready", "saving"}],
           \A t \in Terminals : pc'[t] \in {"ready", "saving"} => pc[t] = pc'[t]
    PROVE  WInv'
<1>1. Types'
  BY DEF WInv, Types
<1>2. Held'
  BY DEF WInv, Held
<1>3. Intended' /\ Licensed'
  BY DEF WInv, Intended, Licensed, Stale, Loadable
<1> QED
  BY <1>1, <1>2, <1>3 DEF WInv

\* Commands that print, the machine, the environment and the window.
LEMMA PrintingKeeps ==
    ASSUME WInv,
           \/ \E t \in Terminals : RecommendSizes(t) \/ Plan(t) \/ PrintRecommendation(t)
           \/ ChangeMachine \/ SetEnvironment \/ Open \/ Detect \/ Poll \/ Close
    PROVE  WInv'
<1>1. /\ readings \in AllReadings /\ forcedFree \in BOOLEAN
      /\ pc \in [Terminals -> {"idle", "profiling", "ready", "saving"}]
  BY DEF WInv, Types
<1>2. CASE \E t \in Terminals : RecommendSizes(t) \/ Plan(t) \/ PrintRecommendation(t)
  <2>1. PICK t \in Terminals : RecommendSizes(t) \/ Plan(t) \/ PrintRecommendation(t)
    BY <1>2
  <2>2. UNCHANGED <<readings, forcedFree, license, now, paid, file, project, intent>>
    BY <2>1 DEF RecommendSizes, Plan, PrintRecommendation, world
  <2>3. pc' \in {pc, [pc EXCEPT ![t] = "profiling"], [pc EXCEPT ![t] = "idle"]}
    BY <2>1 DEF RecommendSizes, Plan, PrintRecommendation
  <2>4. /\ pc' \in [Terminals -> {"idle", "profiling", "ready", "saving"}]
        /\ \A u \in Terminals : pc'[u] \in {"ready", "saving"} => pc[u] = pc'[u]
    BY <1>1, <2>3
  <2> QED
    BY <1>1, <2>2, <2>4, FrameKeeps
<1>3. CASE ChangeMachine \/ SetEnvironment \/ Open \/ Detect \/ Poll \/ Close
  <2>1. UNCHANGED <<license, now, paid, file, project, intent, pc>>
    BY <1>3 DEF ChangeMachine, SetEnvironment, Open, Detect, Poll, Close, world, commands
  <2>2. readings' \in AllReadings /\ forcedFree' \in BOOLEAN
    BY <1>1, <1>3 DEF ChangeMachine, SetEnvironment, Open, Detect, Poll, Close, world
  <2> QED
    BY <1>1, <2>1, <2>2, FrameKeeps
<1> QED
  BY <1>2, <1>3

\* One terminal gets another project, or none, and only a gated one may be larger.
LEMMA ProjectReplaced ==
    ASSUME WInv, NEW t \in Terminals, NEW p \in Projects \cup {None},
           NEW state \in {"idle", "profiling", "ready", "saving"},
           project' = [project EXCEPT ![t] = p], pc' = [pc EXCEPT ![t] = state],
           UNCHANGED <<world, file, intent>>,
           state \in {"ready", "saving"} => p # None,
           p # None => p.note \in {"created", "refreshed"},
           p # None /\ p.note = "refreshed" /\ intent # None => Content(p) = intent,
           Larger(p) => paid
    PROVE  WInv'
<1>1. Types'
  BY DEF WInv, Types, world
<1>2. project'[t] = p /\ \A u \in Terminals \ {t} : project'[u] = project[u] /\ pc'[u] = pc[u]
  BY DEF WInv, Types
<1>3. Held'
  BY <1>2 DEF WInv, Held, Types
<1>4. Intended'
  BY <1>2 DEF WInv, Intended, Stale, Loadable
<1>5. Licensed'
  BY <1>2 DEF WInv, Licensed, world
<1> QED
  BY <1>1, <1>3, <1>4, <1>5 DEF WInv

\* A new project is gated.
LEMMA CreateKeeps == ASSUME WInv, NEW t \in Terminals, Create(t) PROVE WInv'
<1>1. PICK size \in ModelSizes, withHardware \in BOOLEAN :
          /\ RequiredFeature(size) \in Granted
          /\ pc' = [pc EXCEPT ![t] = IF withHardware THEN "profiling" ELSE "ready"]
          /\ project' = [project EXCEPT ![t] = NewProject(size)]
  BY DEF Create
<1>2. size \in Sizes
  BY InputsAssumption
<1>3. NewProject(size) \in Projects /\ NewProject(size).note = "created" /\ NewProject(size) # None
  BY <1>2, NewProjectType, ProjectFields
<1>4. Larger(NewProject(size)) => paid
  BY <1>1, <1>2, NewProjectType, LargerNeedsLicense DEF WInv, Licensed, Larger
<1>5. UNCHANGED <<world, file, intent>>
  BY DEF Create
<1> DEFINE state == IF withHardware THEN "profiling" ELSE "ready"
<1>6. state \in {"idle", "profiling", "ready", "saving"} /\ pc' = [pc EXCEPT ![t] = state]
  BY <1>1
<1> QED
  BY <1>1, <1>3, <1>4, <1>5, <1>6, ProjectReplaced

\* A refresh holds what the file says.
LEMMA RefreshKeeps == ASSUME WInv, NEW t \in Terminals, Refresh(t) PROVE WInv'
<1> DEFINE p == [file EXCEPT !.note = "refreshed"]
<1>1. file \in Projects /\ Loadable
  BY LoadableIsProject DEF WInv, Refresh
<1>2. p \in Projects /\ p.note = "refreshed" /\ p.size = file.size /\ Content(p) = Content(file)
  BY <1>1, RefreshedType
<1>3. Larger(p) => paid
  BY <1>1, <1>2, ProjectFields DEF WInv, Licensed, Larger
<1>4. intent # None => Content(p) = intent
  BY <1>1, <1>2 DEF WInv, Intended
<1>5. /\ project' = [project EXCEPT ![t] = p] /\ pc' = [pc EXCEPT ![t] = "profiling"]
      /\ UNCHANGED <<world, file, intent>>
  BY DEF Refresh
<1> QED
  BY <1>2, <1>3, <1>4, <1>5, ProjectReplaced

\* A profile changes nothing that a user has set.
LEMMA AddHardwareKeeps == ASSUME WInv, NEW t \in Terminals, AddHardware(t) PROVE WInv'
<1>1. PICK h \in readings : project' = [project EXCEPT ![t] = WithHardware(project[t], h)]
  BY DEF AddHardware
<1> DEFINE p == project[t]
           q == WithHardware(p, h)
<1>2. h \in Profiled /\ p \in Projects
  BY DEF WInv, Types, Profiled, AddHardware
<1>3. q \in Projects /\ q.note = p.note /\ q.size = p.size /\ Content(q) = Content(p)
  BY <1>2, WithHardwareType
<1>4. p # None /\ q # None /\ q.note \in {"created", "refreshed"}
  BY <1>2, <1>3, ProjectFields DEF WInv, Held
<1>5. q.note = "refreshed" /\ intent # None => Content(q) = intent
  BY <1>3, <1>4, ValuesAssumption DEF WInv, Intended, Stale
<1>6. Larger(q) => paid
  BY <1>2, <1>3, ProjectFields DEF WInv, Licensed, Larger
<1>7. pc' = [pc EXCEPT ![t] = "ready"] /\ UNCHANGED <<world, file, intent>>
  BY DEF AddHardware
<1> HIDE DEF q
<1> QED
  BY <1>1, <1>3, <1>4, <1>5, <1>6, <1>7, ProjectReplaced DEF q

\* A killed command writes nothing more.
LEMMA KillKeeps == ASSUME WInv, NEW t \in Terminals, Kill(t) PROVE WInv'
<1>1. /\ project' = [project EXCEPT ![t] = None] /\ pc' = [pc EXCEPT ![t] = "idle"]
      /\ UNCHANGED <<world, file, intent>>
  BY DEF Kill
<1>2. ~Larger(None)
  BY DEF Larger
<1> QED
  BY <1>1, <1>2, ProjectReplaced

\* A file that has been truncated says nothing.
LEMMA BeginSaveKeeps == ASSUME WInv, NEW t \in Terminals, BeginSave(t) PROVE WInv'
<1>1. /\ file' = Torn /\ pc[t] = "ready" /\ pc' = [pc EXCEPT ![t] = "saving"]
      /\ UNCHANGED <<world, project, intent>>
  BY DEF BeginSave
<1>2. Types'
  BY <1>1 DEF WInv, Types, world
<1>3. Held'
  BY <1>1 DEF WInv, Types, Held
<1>4. Intended'
  BY <1>1 DEF WInv, Intended, Stale, Loadable
<1>5. Licensed'
  BY <1>1 DEF WInv, Licensed, Larger, world
<1> QED
  BY <1>2, <1>3, <1>4, <1>5 DEF WInv

\* What is written is what a user has asked create for, or what a refresh has found.
LEMMA EndSaveKeeps == ASSUME WInv, NEW t \in Terminals, EndSave(t) PROVE WInv'
<1> DEFINE p == project[t]
<1>1. /\ file' \in {p, Torn} /\ pc' = [pc EXCEPT ![t] = "idle"]
      /\ project' = [project EXCEPT ![t] = None] /\ UNCHANGED world
      /\ intent' = IF p.note # "created" THEN intent
                   ELSE IF Stale(t) = {} THEN Content(p) ELSE None
  BY DEF EndSave
<1>2. p \in Projects /\ p # None /\ p.note \in {"created", "refreshed"}
  BY DEF WInv, Types, Held, EndSave
<1>3. Types'
  BY <1>1, <1>2 DEF WInv, Types, world
<1>4. project'[t] = None /\ \A u \in Terminals \ {t} : project'[u] = project[u] /\ pc'[u] = pc[u]
  BY <1>1 DEF WInv, Types
<1>5. Held'
  BY <1>1, <1>4 DEF WInv, Types, Held
<1>6. Stale(None)' \subseteq Stale(t) /\ \A u \in Stale(t) : project'[u] = project[u]
  BY <1>4 DEF Stale
<1>7. Intended'
  <2>1. CASE p.note = "created"
    BY <1>1, <1>6, <2>1 DEF Intended, Loadable
  <2>2. CASE p.note = "refreshed"
    <3>1. intent' = intent /\ t \in Stale(None) /\ Stale(t) \subseteq Stale(None)
      BY <1>1, <1>2, <2>2, ValuesAssumption DEF Stale
    <3>2. intent # None => Content(p) = intent /\ \A u \in Stale(t) : Content(project[u]) = intent
      BY <3>1 DEF WInv, Intended
    <3>3. Loadable' => file' = p
      BY <1>1 DEF Loadable
    <3>4. \A u \in Stale(None)' : project'[u] = project[u] /\ u \in Stale(t)
      BY <1>6
    <3> QED
      BY <3>1, <3>2, <3>3, <3>4 DEF Intended, Content
  <2> QED
    BY <1>2, <2>1, <2>2
<1>8. Licensed'
  BY <1>1, <1>4 DEF WInv, Licensed, Larger, world
<1> QED
  BY <1>3, <1>5, <1>7, <1>8 DEF WInv

\* An edit is what the user asks for, and for a while nobody knows what becomes of it when a
\* refresh is under way.
LEMMA EditKeeps == ASSUME WInv, Edit PROVE WInv'
<1>1. PICK training \in Trainings, context \in Contexts :
          file' = [file EXCEPT !.training = training, !.note = "edited",
                               !.arch = WithContext(file.size, context)]
  BY DEF Edit
<1>2. /\ intent' = IF Stale(None) = {} THEN Content(file') ELSE None
      /\ UNCHANGED <<world, commands>>
  BY DEF Edit
<1>3. file \in Projects
  BY LoadableIsProject DEF WInv, Edit
<1>4. file' \in Projects /\ file'.size = file.size
  BY <1>1, <1>3, EditedType
<1>5. Types' /\ Held'
  BY <1>2, <1>4 DEF WInv, Types, Held, world, commands
<1>6. Stale(None)' = Stale(None)
  BY <1>2 DEF Stale, commands
<1>7. Intended'
  BY <1>2, <1>6 DEF Intended
<1>8. Licensed'
  BY <1>2, <1>3, <1>4, ProjectFields DEF WInv, Licensed, Larger, world, commands
<1> QED
  BY <1>5, <1>7, <1>8 DEF WInv

\* A good license is remembered.
LEMMA InstallLicenseKeeps == ASSUME WInv, InstallLicense PROVE WInv'
<1>1. /\ license' \in LicenseFiles /\ paid' = (paid \/ Good(license', now))
      /\ UNCHANGED <<readings, now, forcedFree, commands, file, intent>>
  BY DEF InstallLicense
<1>2. Types'
  BY <1>1, InputsAssumption DEF WInv, Types, commands
<1>3. Held' /\ Intended'
  BY <1>1 DEF WInv, Held, Intended, Stale, Loadable, commands
<1>4. Licensed'
  BY <1>1 DEF WInv, Licensed, Larger, commands
<1> QED
  BY <1>2, <1>3, <1>4 DEF WInv

\* Time makes no license good.
LEMMA TickKeeps == ASSUME WInv, Tick PROVE WInv'
<1>1. /\ now' = now + 1
      /\ UNCHANGED <<readings, license, forcedFree, paid, commands, file, intent>>
  BY DEF Tick
<1>2. Types'
  BY <1>1 DEF WInv, Types, commands
<1>3. Held' /\ Intended'
  BY <1>1 DEF WInv, Held, Intended, Stale, Loadable, commands
<1>4. Good(license, now') => Good(license, now)
  BY <1>1, GoodBefore DEF WInv, Types
<1>5. Licensed'
  BY <1>1, <1>4 DEF WInv, Licensed, commands
<1> QED
  BY <1>2, <1>3, <1>5 DEF WInv

\* Every step, and every step of something else.
LEMMA StepHolds == WInv /\ [Next]_vars => WInv'
<1>1. WInv /\ UNCHANGED vars => WInv'
  BY FrameKeeps DEF vars, world, commands, WInv, Types
<1> QED
  BY <1>1, PrintingKeeps, CreateKeeps, RefreshKeeps, AddHardwareKeeps, KillKeeps, BeginSaveKeeps,
     EndSaveKeeps, EditKeeps, InstallLicenseKeeps, TickKeeps DEF Next, Run

\* The clock never goes back.
LEMMA ClockForward == WInv /\ [Next]_vars => now' \in Nat /\ now <= now'
<1> SUFFICES ASSUME WInv, [Next]_vars PROVE now' \in Nat /\ now <= now'
  OBVIOUS
<1>1. now \in Nat
  BY DEF WInv, Types
<1>2. now' = now \/ Tick
  BY DEF Next, Run, Create, Refresh, RecommendSizes, Plan, PrintRecommendation, AddHardware,
     BeginSave, EndSave, Kill, Edit, ChangeMachine, InstallLicense, SetEnvironment, Open, Detect,
     Poll, Close, world, vars
<1> QED
  BY <1>1, <1>2 DEF Tick

-----------------------------------------------------------------------------
(***************************************************************************)
(* Theorems.                                                               *)
(***************************************************************************)
\* Whatever commands overlap, are killed or leave a torn file, a file that loads says what
\* its user last asked for, unless a refresh was under way (core/project.py,
\* _cmd_project_refresh of apps/cli/main.py).
THEOREM EditsAreKept == Spec => []EditsSurvive
<1>1. WInv => EditsSurvive
  BY DEF WInv, Intended, EditsSurvive
<1> QED
  BY <1>1, InitHolds, StepHolds, PTL DEF Spec

\* Paid features need a good license, time grants none, and no larger model comes into being
\* without one (core/editions.py, _cmd_project_create).
THEOREM LicensesGrant == Spec => OnlyALicenseGrants
<1> DEFINE Grants ==
      /\ Granted' \subseteq FREE_FEATURES \/ (Good(license', now') /\ ~forcedFree')
      /\ license' = license /\ forcedFree' = forcedFree => Granted' \subseteq Granted
      /\ Larger(file') \/ (\E t \in Terminals : Larger(project'[t])) => paid'
<1>1. WInv /\ WInv' /\ [Next]_vars => Grants
  <2> SUFFICES ASSUME WInv, WInv', [Next]_vars PROVE Grants
    OBVIOUS
  <2>1. Granted' \subseteq FREE_FEATURES \/ (Good(license', now') /\ ~forcedFree')
    BY GrantNeedsLicense DEF WInv, Types, Granted
  <2>2. license' = license /\ forcedFree' = forcedFree => Granted' \subseteq Granted
    BY ClockForward, GrantsShrink DEF WInv, Types, Granted
  <2>3. Larger(file') \/ (\E t \in Terminals : Larger(project'[t])) => paid'
    BY DEF WInv, Licensed
  <2> QED
    BY <2>1, <2>2, <2>3
<1>2. Spec => []WInv
  BY InitHolds, StepHolds, PTL DEF Spec
<1>3. Spec => [][Next]_vars
  BY PTL DEF Spec
<1> HIDE DEF Grants
<1>4. Spec => [][Grants]_vars
  BY <1>1, <1>2, <1>3, PTL
<1> QED
  BY <1>4 DEF Grants, OnlyALicenseGrants

-----------------------------------------------------------------------------
(***************************************************************************)
(* What is advised.                                                        *)
(***************************************************************************)
\* What recommend, pipeline plan and the window may show: the fits of one profile, a project
\* that its last writer has left as it should be, an error.
Answers ==
    {Recommendation(h, training, context) :
        h \in Profiled, training \in Trainings, context \in Contexts \cup {NoContext}}

Fresh(p) ==
    /\ p.note = "created" => p.training = DefaultTraining
    /\ p.note = "refreshed" => p.hardware # None
    /\ p.hardware # None /\ p.note # "edited" =>
         p.recommendation =
            Fit(p.hardware, p.size, p.training,
                IF p.note = "created" THEN DefaultArchitecture(p.size) ELSE p.arch)

Plans    == [kind : {"plan"}, project : {p \in Projects : Fresh(p)}]
Failures == [kind : {"failure"}]

Windows ==
    [state : {"closed", "detecting", "shown", "failed"}, timer : BOOLEAN, detecting : BOOLEAN,
     queue : Seq(Answers \cup Failures), shown : Answers \cup Failures \cup {None}, renders : Nat]
Intents == [size : Sizes, arch : Architectures, training : Trainings] \cup {None}
Counts  == [{"commands", "events"} -> Nat]

\* The rest of TypeOK.
Shown ==
    /\ now \in Times
    /\ request \in [Terminals -> Requests \cup {None}]
    /\ printed \in [Terminals -> Answers \cup Plans \cup {None}]
    /\ window \in Windows
    /\ intent \in Intents
    /\ count \in Counts

\* A recommend that waits for its profile has been given knobs, and what is in the file or
\* is about to be is as its writer should leave it.
Informed ==
    /\ \A t \in Terminals :
         /\ pc[t] = "profiling" /\ project[t] = None => request[t] \in Requests
         /\ pc[t] \in {"ready", "saving"} => Fresh(project[t])
         /\ project[t] # None /\ project[t].note = "created" => project[t].training = DefaultTraining
    /\ Loadable => Fresh(file)

AInv == WInv /\ Shown /\ Informed

\* What a profiler may return is hardware.
LEMMA ProfiledType == \A h \in Profiled : h \in Hardwares
<1> SUFFICES ASSUME NEW m \in Machines, NEW h \in Readings(m) PROVE h \in Hardwares
  BY DEF Profiled, AllReadings
<1>1. m \in MachineSpecs /\ IsFiniteSet(m.keys)
  BY InputsAssumption, KeysAssumption
<1> QED
  BY <1>1, ProfileType DEF Readings

\* The first three sizes are the ones that a user is shown.
LEMMA UserFacing ==
    /\ DOMAIN USER_FACING_SIZES = 1 .. 3
    /\ USER_FACING_SIZES[1] = "20M" /\ USER_FACING_SIZES[2] = "50M" /\ USER_FACING_SIZES[3] = "100M"
    /\ \A i \in 1 .. 3 : USER_FACING_SIZES[i] \in Sizes
<1>1. Len(ALL_SIZES) = 5 /\ ALL_SIZES[1] = "20M" /\ ALL_SIZES[2] = "50M" /\ ALL_SIZES[3] = "100M"
  BY DEF ALL_SIZES
<1>2. ALL_SIZES \in Seq({"20M", "50M", "100M", "200M", "500M"})
  BY DEF ALL_SIZES
<1>3. /\ Len(SubSeq(ALL_SIZES, 1, 3)) = 3
      /\ \A i \in 1 .. 3 : SubSeq(ALL_SIZES, 1, 3)[i] = ALL_SIZES[i]
      /\ SubSeq(ALL_SIZES, 1, 3) \in Seq({"20M", "50M", "100M", "200M", "500M"})
  BY <1>1, <1>2
<1>4. \A i \in 1 .. 3 : ALL_SIZES[i] \in Sizes
  BY <1>1 DEF Sizes, ALL_SIZES
<1> QED
  BY <1>1, <1>3, <1>4 DEF USER_FACING_SIZES

\* The architecture that recommend takes for a size.
ArchitectureOf(size, context) ==
    IF context = NoContext THEN DefaultArchitecture(size) ELSE WithContext(size, context)

\* A recommendation by its fits.
LEMMA RecommendationFits ==
    ASSUME NEW h, NEW training, NEW context, NEW r, r = Recommendation(h, training, context)
    PROVE  /\ r.kind = "recommend" /\ DOMAIN r.fits = 1 .. 3
           /\ r = [kind |-> "recommend", fits |-> r.fits]
           /\ r.fits = [i \in 1 .. 3 |-> r.fits[i]]
           /\ \A i \in 1 .. 3 :
                r.fits[i] = Fit(h, USER_FACING_SIZES[i], training,
                                ArchitectureOf(USER_FACING_SIZES[i], context))
<1>1. PICK f : f = [i \in DOMAIN USER_FACING_SIZES |->
                      Fit(h, USER_FACING_SIZES[i], training,
                          ArchitectureOf(USER_FACING_SIZES[i], context))]
  OBVIOUS
<1>2. r = [kind |-> "recommend", fits |-> f]
  BY <1>1 DEF Recommendation, ArchitectureOf
<1> QED
  BY <1>1, <1>2, UserFacing

\* An answer is the fits of one profile.
LEMMA AnswerFits ==
    ASSUME NEW x \in Answers
    PROVE  /\ x = [kind |-> "recommend", fits |-> x.fits]
           /\ DOMAIN x.fits = 1 .. 3 /\ x.fits = [i \in 1 .. 3 |-> x.fits[i]]
           /\ \E h \in Profiled, training \in Trainings, context \in Contexts \cup {NoContext} :
                \A n \in 1 .. 3 :
                    x.fits[n] = Fit(h, USER_FACING_SIZES[n], training,
                                    ArchitectureOf(USER_FACING_SIZES[n], context))
<1>1. PICK h \in Profiled, training \in Trainings, context \in Contexts \cup {NoContext} :
         x = Recommendation(h, training, context)
  BY DEF Answers
<1>2. PICK r : r = Recommendation(h, training, context)
  OBVIOUS
<1>3. /\ r = [kind |-> "recommend", fits |-> r.fits] /\ r.fits = [i \in 1 .. 3 |-> r.fits[i]]
      /\ \A i \in 1 .. 3 :
           r.fits[i] = Fit(h, USER_FACING_SIZES[i], training,
                           ArchitectureOf(USER_FACING_SIZES[i], context))
  BY <1>2, RecommendationFits
<1> QED
  BY <1>1, <1>2, <1>3

\* An answer is something that can be printed.
LEMMA AnswerType == Answers \cup Plans \cup Failures \subseteq Outputs
<1>1. ASSUME NEW x \in Answers
      PROVE  x \in Outputs
  <2>1. PICK h \in Profiled, training \in Trainings, context \in Contexts \cup {NoContext} :
           \A n \in 1 .. 3 : x.fits[n] = Fit(h, USER_FACING_SIZES[n], training,
                                            ArchitectureOf(USER_FACING_SIZES[n], context))
    BY AnswerFits
  <2>2. ASSUME NEW i \in 1 .. 3
        PROVE  x.fits[i] \in Fits
    <3>1. PICK size \in Sizes : size = USER_FACING_SIZES[i]
      BY UserFacing
    <3>2. ArchitectureOf(size, context) \in AllArchitectures
      BY DEF ArchitectureOf, AllArchitectures, Architectures
    <3>3. x.fits[i] = Fit(h, size, training, ArchitectureOf(size, context))
      BY <2>1, <3>1
    <3> QED
      BY <3>2, <3>3 DEF Fit, Fits
  <2>3. PICK f : f = x.fits
    OBVIOUS
  <2>4. f \in [1 .. 3 -> Fits]
    BY <2>2, <2>3, AnswerFits
  <2>5. x = [kind |-> "recommend", fits |-> f]
    BY <2>3, AnswerFits
  <2> QED
    BY <2>4, <2>5, UserFacing DEF Outputs
<1>2. Plans \subseteq Outputs /\ Failures \subseteq Outputs
  BY DEF Plans, Failures, Outputs
<1> QED
  BY <1>1, <1>2

\* The invariant has the types.
LEMMA AdviceTypes == AInv => TypeOK
<1> SUFFICES ASSUME AInv PROVE TypeOK
  OBVIOUS
<1>1. readings \in AllReadings /\ readings \subseteq Hardwares
  BY ProfiledType DEF AInv, WInv, Types, Profiled
<1>2. printed \in [Terminals -> Outputs \cup {None}]
  BY AnswerType DEF AInv, Shown
<1>3. window \in [state : {"closed", "detecting", "shown", "failed"}, timer : BOOLEAN,
                  detecting : BOOLEAN, queue : Seq(Outputs), shown : Outputs \cup {None},
                  renders : Nat]
  <2>1. Seq(Answers \cup Failures) \subseteq Seq(Outputs)
    BY AnswerType
  <2>2. Answers \cup Failures \cup {None} \subseteq Outputs \cup {None}
    BY AnswerType
  <2> QED
    BY <2>1, <2>2 DEF AInv, Shown, Windows
<1> QED
  BY <1>1, <1>2, <1>3 DEF AInv, WInv, Types, Shown, TypeOK, Intents, Counts

\* Its knobs and architectures are what the engine takes.
LEMMA ArchitectureType ==
    ASSUME NEW size \in Sizes, NEW context \in Contexts \cup {NoContext}
    PROVE  ModelProfile(size) \in Shapes /\ ArchitectureOf(size, context) \in Shapes
<1>1. size \in {"20M", "50M", "100M", "200M", "500M"}
  BY SizeFacts
<1>2. ModelProfile(size) \in Shapes
  BY <1>1 DEF ModelProfile, Architecture, Shapes, Unit
<1>3. CASE context = NoContext
  <2>1. AtLeast(Round(Millions(size), 8), 4) \in Nat
    <3>1. PICK n \in Nat : n = Millions(size)
      BY SizeFacts
    <3>2. Round(n, 8) \in Nat
      BY RoundIsNear
    <3> QED
      BY <3>1, <3>2 DEF AtLeast
  <2>2. DefaultArchitecture(size) \in Shapes
    BY <2>1 DEF DefaultArchitecture, Architecture, Shapes, Unit
  <2> QED
    BY <1>2, <1>3, <2>2 DEF ArchitectureOf
<1>4. CASE context \in Contexts
  <2>1. PICK c \in Nat : c = context \div Unit
    BY <1>4, InputsAssumption DEF Unit
  <2>2. WithContext(size, context) \in Shapes
    BY <1>2, <2>1 DEF WithContext, Shapes
  <2> QED
    BY <1>2, <1>4, <2>2, InputsAssumption DEF ArchitectureOf
<1> QED
  BY <1>3, <1>4

\* A larger size of the three has an architecture that is no smaller.
LEMMA ArchitecturesGrow ==
    ASSUME NEW i \in 1 .. 3, NEW j \in 1 .. 3, i <= j, NEW context \in Contexts \cup {NoContext}
    PROVE  /\ Millions(USER_FACING_SIZES[i]) <= Millions(USER_FACING_SIZES[j])
           /\ Within(ArchitectureOf(USER_FACING_SIZES[i], context),
                     ArchitectureOf(USER_FACING_SIZES[j], context))
<1>1. PICK s \in {"20M", "50M", "100M"} : s = USER_FACING_SIZES[i]
  BY UserFacing
<1>2. PICK t \in {"20M", "50M", "100M"} : t = USER_FACING_SIZES[j]
  BY UserFacing
<1>3. Millions(s) <= Millions(t)
  BY <1>1, <1>2, UserFacing DEF Millions
<1>4. CASE context = NoContext
  <2>1. PICK m \in Nat : m = Millions(s)
    BY <1>1 DEF Millions
  <2>2. PICK n \in Nat : n = Millions(t)
    BY <1>2 DEF Millions
  <2>3. Round(m, 8) <= Round(n, 8) /\ Round(m, 8) \in Nat /\ Round(n, 8) \in Nat
    BY <1>3, <2>1, <2>2, RoundIsNear, RoundGrows
  <2>4. AtLeast(Round(m, 8), 4) <= AtLeast(Round(n, 8), 4)
    BY <2>3 DEF AtLeast
  <2>5. Within(DefaultArchitecture(s), DefaultArchitecture(t))
    BY <2>1, <2>2, <2>4 DEF Within, DefaultArchitecture, Architecture, Unit
  <2> QED
    BY <1>1, <1>2, <1>3, <1>4, <2>5 DEF ArchitectureOf
<1>5. CASE context \in Contexts
  <2>1. PICK c \in Nat : c = context \div Unit
    BY <1>5, InputsAssumption DEF Unit
  <2>2. Within(WithContext(s, context), WithContext(t, context))
    BY <1>1, <1>2, <2>1, UserFacing DEF WithContext, Within, ModelProfile, Architecture, Unit
  <2> QED
    BY <1>1, <1>2, <1>3, <1>5, <2>2, InputsAssumption DEF ArchitectureOf
<1> QED
  BY <1>4, <1>5

\* Two fits of which the engine thinks no better of the second: for a size and architecture
\* that are no smaller, or on less.
LEMMA FitsKeepOrder ==
    ASSUME NEW h \in Hardwares, NEW k \in Hardwares, Outdoes(h, k),
           NEW s \in Sizes, NEW t \in Sizes, Millions(s) <= Millions(t),
           NEW training \in Trainings, NEW a \in Shapes, NEW b \in Shapes, Within(a, b),
           NEW f, f = Fit(h, s, training, a), NEW g, g = Fit(k, t, training, b)
    PROVE  NoBetter(Value(g), Value(f)) /\ Value(f).required <= Value(g).required
<1>1. Value(f) = Evaluate(h, s, training, a) /\ Value(g) = Evaluate(k, t, training, b)
  BY DEF Value, Fit
<1>2. training \in TrainingSpecs
  BY TrainingsAssumption
<1> QED
  BY <1>1, <1>2, AdviceKeepsOrder DEF NoBetter

\* In one answer.
LEMMA OneAnswer ==
    ASSUME NEW x \in Answers, NEW i \in 1 .. 3, NEW j \in 1 .. 3, i < j
    PROVE  /\ NoBetter(Value(x.fits[j]), Value(x.fits[i]))
           /\ Value(x.fits[i]).required <= Value(x.fits[j]).required
<1>1. PICK h \in Profiled, training \in Trainings, context \in Contexts \cup {NoContext} :
         \A n \in 1 .. 3 : x.fits[n] = Fit(h, USER_FACING_SIZES[n], training,
                                          ArchitectureOf(USER_FACING_SIZES[n], context))
  BY AnswerFits
<1>2. PICK s \in Sizes : s = USER_FACING_SIZES[i]
  BY UserFacing
<1>3. PICK t \in Sizes : t = USER_FACING_SIZES[j]
  BY UserFacing
<1>4. PICK a \in Shapes : a = ArchitectureOf(s, context)
  BY ArchitectureType
<1>5. PICK b \in Shapes : b = ArchitectureOf(t, context)
  BY ArchitectureType
<1>6. Millions(s) <= Millions(t) /\ Within(a, b)
  BY <1>2, <1>3, <1>4, <1>5, ArchitecturesGrow
<1>7. h \in Hardwares /\ Outdoes(h, h)
  BY ProfiledType DEF Outdoes, Hardwares, Gpus
<1>8. x.fits[i] = Fit(h, s, training, a) /\ x.fits[j] = Fit(h, t, training, b)
  BY <1>1, <1>2, <1>3, <1>4, <1>5
<1> QED
  BY <1>6, <1>7, <1>8, FitsKeepOrder

\* In two answers.
LEMMA TwoAnswers ==
    ASSUME NEW x \in Answers, NEW y \in Answers, NEW i \in 1 .. 3,
           x.fits[i].training = y.fits[i].training, x.fits[i].arch = y.fits[i].arch,
           AtLeastAs(y.fits[i].hardware, x.fits[i].hardware)
    PROVE  NoBetter(Value(x.fits[i]), Value(y.fits[i]))
<1>1. PICK s \in Sizes : s = USER_FACING_SIZES[i]
  BY UserFacing
<1>2. ASSUME NEW z \in Answers
      PROVE  \E h \in Hardwares, training \in Trainings, a \in Shapes :
               z.fits[i] = Fit(h, s, training, a)
  <2>1. PICK h \in Profiled, training \in Trainings, context \in Contexts \cup {NoContext} :
           \A n \in 1 .. 3 : z.fits[n] = Fit(h, USER_FACING_SIZES[n], training,
                                            ArchitectureOf(USER_FACING_SIZES[n], context))
    BY AnswerFits
  <2>2. PICK a \in Shapes : a = ArchitectureOf(s, context)
    BY ArchitectureType
  <2>3. z.fits[i] = Fit(h, s, training, a) /\ h \in Hardwares
    BY <1>1, <2>1, <2>2, ProfiledType
  <2> QED
    BY <2>3
<1>3. PICK k \in Hardwares, u \in Trainings, b \in Shapes : x.fits[i] = Fit(k, s, u, b)
  BY <1>2
<1>4. PICK h \in Hardwares, v \in Trainings, a \in Shapes : y.fits[i] = Fit(h, s, v, a)
  BY <1>2
<1>5. u = v /\ a = b /\ AtLeastAs(h, k)
  BY <1>3, <1>4 DEF Fit
<1>6. Outdoes(h, k)
  BY <1>5 DEF AtLeastAs, Outdoes
<1>7. Within(a, a) /\ Millions(s) <= Millions(s)
  BY SizeFacts DEF Within, Shapes
<1> QED
  BY <1>3, <1>4, <1>5, <1>6, <1>7, FitsKeepOrder

\* The invariant makes the advice monotone.
LEMMA AnswersAreMonotone == AInv => AdviceIsMonotone
<1> SUFFICES ASSUME AInv PROVE AdviceIsMonotone
  OBVIOUS
<1> DEFINE answers == {x \in {printed[t] : t \in Terminals} \cup {window.shown} :
                          x # None /\ x.kind = "recommend"}
           Values  == [x \in answers |-> [i \in DOMAIN x.fits |-> Value(x.fits[i])]]
<1>1. ASSUME NEW x \in answers
      PROVE  x \in Answers /\ DOMAIN x.fits = 1 .. 3
  <2>1. x \in Answers \cup Plans \cup Failures
    BY DEF AInv, Shown, Windows
  <2>2. x \in Answers
    BY <2>1 DEF Plans, Failures
  <2> QED
    BY <2>2, AnswerFits
<1>2. ASSUME NEW x \in answers, NEW i \in 1 .. 3
      PROVE  Values[x][i] = Value(x.fits[i])
  BY <1>1
<1>3. ASSUME NEW x \in answers, NEW i \in 1 .. 3, NEW j \in 1 .. 3, i < j
      PROVE  /\ NoBetter(Values[x][j], Values[x][i])
             /\ Values[x][i].required <= Values[x][j].required
  <2> HIDE DEF answers, Values
  <2> QED
    BY <1>1, <1>2, <1>3, OneAnswer
<1>4. ASSUME NEW x \in answers, NEW y \in answers, NEW i \in 1 .. 3,
             x.fits[i].training = y.fits[i].training, x.fits[i].arch = y.fits[i].arch,
             AtLeastAs(y.fits[i].hardware, x.fits[i].hardware)
      PROVE  NoBetter(Values[x][i], Values[y][i])
  <2> HIDE DEF answers, Values
  <2> QED
    BY <1>1, <1>2, <1>4, TwoAnswers
<1>5. DOMAIN USER_FACING_SIZES = 1 .. 3
  BY UserFacing
<1>6. \A x \in answers, i, j \in DOMAIN USER_FACING_SIZES :
          /\ i < j => /\ NoBetter(Values[x][j], Values[x][i])
                      /\ Values[x][i].required <= Values[x][j].required
          /\ \A y \in answers :
               /\ x.fits[i].training = y.fits[i].training /\ x.fits[i].arch = y.fits[i].arch
               /\ AtLeastAs(y.fits[i].hardware, x.fits[i].hardware)
               => NoBetter(Values[x][i], Values[y][i])
  <2> HIDE DEF answers, Values
  <2> QED
    BY <1>3, <1>4, <1>5
<1> QED
  BY <1>6 DEF AdviceIsMonotone

\* The adapter of a profile is one that the machine has, or none.
LEMMA ProfiledIsPresent == \A h \in Profiled : GpuIsPresent(h)
<1> SUFFICES ASSUME NEW m \in Machines, NEW h \in Readings(m) PROVE GpuIsPresent(h)
  BY DEF Profiled, AllReadings
<1>1. /\ m.adapters \in Seq(Adapters) /\ m.keys \in SUBSET Keys /\ IsFiniteSet(m.keys)
  BY InputsAssumption, KeysAssumption DEF MachineSpecs
<1>2. h.gpu = SelectGpu(m.adapters, m.keys) \/ h.gpu = SelectGpu(<< >>, m.keys)
  BY DEF Readings, Profile
<1>3. SelectGpu(<< >>, m.keys) = NoGpu
  BY DEF SelectGpu
<1>4. CASE h.gpu = NoGpu
  BY <1>4 DEF GpuIsPresent
<1>5. CASE h.gpu # NoGpu
  <2>1. PICK b \in Listed(m.adapters) :
            /\ h.gpu = GpuAt(m.adapters, m.keys, b)
            /\ \A j \in Listed(m.adapters) :
                 NotBefore(GpuAt(m.adapters, m.keys, j), GpuAt(m.adapters, m.keys, b))
    BY <1>1, <1>2, <1>3, <1>5, SelectedIsBest
  <2>2. \A j \in Listed(m.adapters) : m.adapters[j] \in Adapters
    BY <1>1 DEF Listed
  <2>3. /\ h.gpu \in Gpus /\ h.gpu.vendor = m.adapters[b].vendor
        /\ AdapterRam(m.adapters[b]) <= h.gpu.memory
        /\ \/ h.gpu.memory <= m.adapters[b].memory
           \/ \E key \in m.keys : Matches(key, m.adapters[b].name) /\ h.gpu.memory = key.memory
    BY <1>1, <2>1, <2>2, GpuFacts DEF GpuAt
  <2>4. ASSUME RegistryIsCurrent(m)
        PROVE  \E i \in Listed(m.adapters) : h.gpu.memory <= m.adapters[i].memory
    <3>1. CASE h.gpu.memory <= m.adapters[b].memory
      BY <3>1
    <3>2. CASE \E key \in m.keys : Matches(key, m.adapters[b].name) /\ h.gpu.memory = key.memory
      BY <2>4, <3>2 DEF RegistryIsCurrent, Listed
    <3> QED
      BY <2>3, <3>1, <3>2
  <2>5. ASSUME NEW j \in Listed(m.adapters), Discrete(m.adapters[j])
        PROVE  Discrete(h.gpu)
    <3>1. GpuAt(m.adapters, m.keys, j).vendor = m.adapters[j].vendor
      BY <1>1, <2>2, GpuFacts DEF GpuAt
    <3>2. Discrete(GpuAt(m.adapters, m.keys, j))
      BY <2>5, <3>1 DEF Discrete
    <3> QED
      BY <2>1, <3>2 DEF NotBefore, Discrete
  <2> QED
    BY <2>1, <2>3, <2>4, <2>5 DEF GpuIsPresent, Listed
<1> QED
  BY <1>4, <1>5

\* The plan of a project asks for no less than the fit that it is made of.
LEMMA PlanAsksEnough ==
    ASSUME NEW h \in Hardwares, NEW size \in Sizes, NEW training \in Trainings,
           NEW arch \in Architectures
    PROVE  LET fit == Evaluate(h, size, training, arch) IN
           fit.required <= PlanMemory(size, fit.required) /\ fit.disk <= PlanDisk(size, fit.disk)
<1>0. Millions(size) <= Millions(size) /\ training \in TrainingSpecs
  BY SizeFacts, TrainingsAssumption
<1>1. arch \in Shapes
  <2>1. CASE arch \in {ModelProfile(s) : s \in Sizes}
    BY <2>1, ArchitectureType
  <2>2. CASE arch \in {WithContext(s, c) : s \in Sizes, c \in Contexts}
    BY <2>2, ArchitectureType, InputsAssumption DEF ArchitectureOf
  <2> QED
    BY <2>1, <2>2 DEF Architectures
<1>2. Within(arch, arch)
  BY <1>1 DEF Within, Shapes
<1>3. PICK r \in Nat : r = MemoryRequired(h, size, training, arch)
  BY <1>0, <1>1, <1>2, MemoryGrows
<1>4. PICK d \in Nat : d = DiskRequired(size)
  BY <1>0, DiskGrows
<1>5. PICK p \in Nat : p = Parameters(size, 8)
  BY <1>0, ParametersGrow
<1>6. PICK q \in Nat : q = Parameters(size, 4)
  BY <1>0, ParametersGrow
<1>7. r <= PlanMemory(size, r)
  BY <1>5 DEF PlanMemory, AtLeast
<1>8. d <= PlanDisk(size, d)
  BY <1>6 DEF PlanDisk
<1>9. Evaluate(h, size, training, arch).required = r /\ Evaluate(h, size, training, arch).disk = d
  BY <1>3, <1>4 DEF Evaluate
<1> QED
  BY <1>7, <1>8, <1>9

\* The invariant makes the advice fit.
LEMMA AdviceFits == AInv => AdviceFitsProject
<1> SUFFICES ASSUME AInv PROVE AdviceFitsProject
  OBVIOUS
<1>1. Loadable => file \in Projects /\ Fresh(file)
  BY LoadableIsProject DEF AInv, WInv, Informed
<1>2. ASSUME Loadable, file.hardware # None
      PROVE  /\ GpuIsPresent(file.hardware)
             /\ file.note # "edited" =>
                  file.recommendation =
                    Fit(file.hardware, file.size, file.training,
                        IF file.note = "created" THEN DefaultArchitecture(file.size) ELSE file.arch)
  <2>1. file.hardware \in Profiled
    BY <1>1, <1>2 DEF Projects
  <2> QED
    BY <1>1, <1>2, <2>1, ProfiledIsPresent DEF Fresh
<1>3. ASSUME NEW t \in Terminals, printed[t] # None, printed[t].kind = "plan",
             printed[t].project.note = "refreshed"
      PROVE  LET p       == printed[t].project
                 advised == Value(p.recommendation)
                 planned == Evaluate(p.hardware, p.size, p.training, p.arch)
             IN  /\ advised.required <= PlanMemory(p.size, planned.required)
                 /\ advised.disk <= PlanDisk(p.size, planned.disk)
  <2>1. PICK p : p = printed[t].project
    OBVIOUS
  <2>2. p \in Projects /\ Fresh(p) /\ p.note = "refreshed"
    <3>1. printed[t] \in Answers \cup Plans
      BY <1>3 DEF AInv, Shown
    <3>2. printed[t] \notin Answers
      <4>1. \A x \in Answers : x.kind = "recommend"
        <5>1. \A x \in Answers : x = [kind |-> "recommend", fits |-> x.fits]
          BY AnswerFits
        <5> QED
          BY <5>1
      <4> QED
        BY <1>3, <4>1
    <3> QED
      BY <1>3, <2>1, <3>1, <3>2 DEF Plans
  <2>3. /\ p.hardware \in Hardwares /\ p.size \in Sizes /\ p.training \in Trainings
        /\ p.arch \in Architectures
        /\ p.recommendation = Fit(p.hardware, p.size, p.training, p.arch)
    BY <2>2, ProfiledType DEF Fresh, Projects
  <2>4. Value(p.recommendation) = Evaluate(p.hardware, p.size, p.training, p.arch)
    BY <2>3 DEF Value, Fit
  <2>5. PICK e : e = Evaluate(p.hardware, p.size, p.training, p.arch)
    OBVIOUS
  <2>6. e.required <= PlanMemory(p.size, e.required) /\ e.disk <= PlanDisk(p.size, e.disk)
    BY <2>3, <2>5, PlanAsksEnough
  <2> QED
    BY <2>1, <2>4, <2>5, <2>6
<1> QED
  BY <1>2, <1>3 DEF AdviceFitsProject

-----------------------------------------------------------------------------
(***************************************************************************)
(* Every step keeps the advice as it should be.                            *)
(***************************************************************************)
\* What is counted stays a number.
LEMMA BoundedType ==
    ASSUME count \in Counts, NEW x \in {"commands", "events"}, NEW max, Bounded(x, max)
    PROVE  count' \in Counts
BY DEF Bounded, Counts

\* At the start nothing is shown.
LEMMA AdviceAtFirst == Init => AInv
<1> SUFFICES ASSUME Init PROVE AInv
  OBVIOUS
<1>1. Closed \in Windows
  <2>1. << >> \in Seq(Answers \cup Failures)
    OBVIOUS
  <2> QED
    BY <2>1 DEF Closed, Windows
<1>2. Shown
  BY <1>1, TimesAssumption DEF Init, Shown, Intents, Counts
<1>3. Informed
  BY DEF Init, Informed, Loadable
<1> QED
  BY <1>2, <1>3, InitHolds DEF AInv

\* Steps of the world and of the window.
LEMMA FrameInforms ==
    ASSUME AInv, UNCHANGED <<commands, file>>, now' \in Times, window' \in Windows,
           intent' \in Intents, count' \in Counts
    PROVE  Shown' /\ Informed'
<1>1. UNCHANGED <<pc, project, request, printed, file>>
  BY DEF commands
<1>2. Shown'
  BY <1>1 DEF AInv, Shown
<1>3. Informed'
  BY <1>1 DEF AInv, Informed, Loadable
<1> QED
  BY <1>2, <1>3

\* Steps of the command in one terminal that do not write the file.
LEMMA CommandInforms ==
    ASSUME AInv, NEW t \in Terminals,
           NEW state \in {"idle", "profiling", "ready", "saving"}, NEW p \in Projects \cup {None},
           NEW r \in Requests \cup {None}, NEW o \in Answers \cup Plans \cup {None},
           pc' = [pc EXCEPT ![t] = state], project' = [project EXCEPT ![t] = p],
           request' = [request EXCEPT ![t] = r], printed' = [printed EXCEPT ![t] = o],
           UNCHANGED <<world, file, window, intent>>, count' \in Counts,
           state = "profiling" /\ p = None => r \in Requests,
           state \in {"ready", "saving"} => Fresh(p),
           p # None /\ p.note = "created" => p.training = DefaultTraining
    PROVE  Shown' /\ Informed'
<1>1. now' = now
  BY DEF world
<1>2. Shown'
  BY <1>1 DEF AInv, Shown
<1>3. /\ pc'[t] = state /\ project'[t] = p /\ request'[t] = r
      /\ \A u \in Terminals \ {t} :
           pc'[u] = pc[u] /\ project'[u] = project[u] /\ request'[u] = request[u]
  BY DEF AInv, WInv, Types, Shown
<1>4. ASSUME NEW u \in Terminals
      PROVE  /\ pc'[u] = "profiling" /\ project'[u] = None => request'[u] \in Requests
             /\ pc'[u] \in {"ready", "saving"} => Fresh(project'[u])
             /\ project'[u] # None /\ project'[u].note = "created" =>
                  project'[u].training = DefaultTraining
  <2>1. CASE u = t
    BY <1>3, <2>1
  <2>2. CASE u # t
    BY <1>3, <2>2 DEF AInv, Informed
  <2> QED
    BY <2>1, <2>2
<1>5. Loadable' => Fresh(file')
  BY DEF AInv, Informed, Loadable
<1>6. Informed'
  BY <1>4, <1>5 DEF Informed
<1> QED
  BY <1>2, <1>6

\* What is left alone is replaced by itself.
LEMMA LeftAlone ==
    ASSUME AInv, NEW t \in Terminals
    PROVE  /\ pc = [pc EXCEPT ![t] = pc[t]] /\ project = [project EXCEPT ![t] = project[t]]
           /\ request = [request EXCEPT ![t] = request[t]]
           /\ printed = [printed EXCEPT ![t] = printed[t]]
           /\ pc[t] \in {"idle", "profiling", "ready", "saving"}
           /\ project[t] \in Projects \cup {None} /\ request[t] \in Requests \cup {None}
           /\ printed[t] \in Answers \cup Plans \cup {None}
BY DEF AInv, WInv, Types, Shown

\* What the commands do to it: create,
LEMMA CreateInforms == ASSUME AInv, NEW t \in Terminals, Create(t) PROVE Shown' /\ Informed'
<1>1. PICK size \in ModelSizes, withHardware \in BOOLEAN :
          /\ pc' = [pc EXCEPT ![t] = IF withHardware THEN "profiling" ELSE "ready"]
          /\ project' = [project EXCEPT ![t] = NewProject(size)]
  BY DEF Create
<1>2. PICK state \in {"profiling", "ready"} : state = IF withHardware THEN "profiling" ELSE "ready"
  OBVIOUS
<1>3. PICK p \in Projects : p = NewProject(size)
  BY InputsAssumption, NewProjectType
<1>4. p # None /\ Fresh(p) /\ p.training = DefaultTraining
  <2>1. p.training = DefaultTraining /\ p.hardware = None /\ p.note = "created"
    BY <1>3 DEF NewProject
  <2> QED
    BY <2>1, ProjectFields DEF Fresh
<1>5. /\ printed' = [printed EXCEPT ![t] = None] /\ request' = request
      /\ UNCHANGED <<world, file, window, intent>> /\ count' \in Counts
  BY BoundedType DEF Create, Start, AInv, Shown
<1> QED
  BY <1>1, <1>2, <1>3, <1>4, <1>5, LeftAlone, CommandInforms

\* refresh,
LEMMA RefreshInforms == ASSUME AInv, NEW t \in Terminals, Refresh(t) PROVE Shown' /\ Informed'
<1>1. PICK p \in Projects : p = [file EXCEPT !.note = "refreshed"] /\ p.note = "refreshed"
  <2>1. file \in Projects
    BY LoadableIsProject DEF AInv, WInv, Refresh
  <2> QED
    BY <2>1, RefreshedType
<1>2. p # None
  BY ProjectFields
<1>3. /\ pc' = [pc EXCEPT ![t] = "profiling"] /\ project' = [project EXCEPT ![t] = p]
      /\ printed' = [printed EXCEPT ![t] = None] /\ request' = request
      /\ UNCHANGED <<world, file, window, intent>> /\ count' \in Counts
  BY <1>1, BoundedType DEF Refresh, Start, AInv, Shown
<1> QED
  BY <1>1, <1>2, <1>3, LeftAlone, CommandInforms

\* recommend,
LEMMA RecommendInforms ==
    ASSUME AInv, NEW t \in Terminals, RecommendSizes(t) PROVE Shown' /\ Informed'
<1>1. PICK r \in Requests : request' = [request EXCEPT ![t] = r]
  BY DEF RecommendSizes
<1>2. /\ pc' = [pc EXCEPT ![t] = "profiling"] /\ printed' = [printed EXCEPT ![t] = None]
      /\ project' = project /\ UNCHANGED <<world, file, window, intent>> /\ count' \in Counts
  BY BoundedType DEF RecommendSizes, Start, AInv, Shown
<1>3. project[t] # None /\ project[t].note = "created" => project[t].training = DefaultTraining
  BY DEF AInv, Informed
<1>4. PICK p \in Projects \cup {None} : p = project[t] /\ project' = [project EXCEPT ![t] = p]
  BY <1>2, LeftAlone
<1> QED
  BY <1>1, <1>2, <1>3, <1>4, CommandInforms

\* and plan, which prints the project as its last writer has left it.
LEMMA PlanInforms == ASSUME AInv, NEW t \in Terminals, Plan(t) PROVE Shown' /\ Informed'
<1>1. PICK o : o = [kind |-> "plan", project |-> file]
  OBVIOUS
<1>2. o \in Plans
  <2>1. file \in Projects /\ Fresh(file)
    BY LoadableIsProject DEF AInv, WInv, Informed, Plan
  <2> QED
    BY <1>1, <2>1 DEF Plans
<1>3. /\ printed' = [printed EXCEPT ![t] = o] /\ UNCHANGED <<pc, project, request>>
      /\ UNCHANGED <<world, file, window, intent>> /\ count' \in Counts /\ pc[t] = "idle"
  BY <1>1, BoundedType DEF Plan, AInv, Shown
<1>4. PICK p \in Projects \cup {None} : p = project[t] /\ project' = [project EXCEPT ![t] = p]
  BY <1>3, LeftAlone
<1>5. PICK r \in Requests \cup {None} : r = request[t] /\ request' = [request EXCEPT ![t] = r]
  BY <1>3, LeftAlone
<1>6. pc' = [pc EXCEPT ![t] = "idle"]
  BY <1>3, LeftAlone
<1>7. p # None /\ p.note = "created" => p.training = DefaultTraining
  BY <1>4 DEF AInv, Informed
<1> QED
  BY <1>2, <1>3, <1>4, <1>5, <1>6, <1>7, CommandInforms

\* The profile of the machine and the knobs that were given make the answer.
LEMMA PrintInforms ==
    ASSUME AInv, NEW t \in Terminals, PrintRecommendation(t) PROVE Shown' /\ Informed'
<1>1. PICK h \in readings :
          printed' = [printed EXCEPT ![t] =
                        Recommendation(h, request[t].training, request[t].context)]
  BY DEF PrintRecommendation
<1>2. PICK r \in Requests : r = request[t]
  BY DEF PrintRecommendation, AInv, Informed
<1>3. PICK o : o = Recommendation(h, r.training, r.context)
  OBVIOUS
<1>4. o \in Answers
  <2>1. h \in Profiled
    BY DEF AInv, WInv, Types, Profiled
  <2>2. r.training \in Trainings /\ r.context \in Contexts \cup {NoContext}
    BY InputsAssumption
  <2> QED
    BY <1>3, <2>1, <2>2 DEF Answers
<1>5. /\ pc' = [pc EXCEPT ![t] = "idle"] /\ request' = [request EXCEPT ![t] = None]
      /\ printed' = [printed EXCEPT ![t] = o] /\ project[t] = None
      /\ UNCHANGED <<world, project, file, window, intent>> /\ count' \in Counts
  BY <1>1, <1>2, <1>3 DEF PrintRecommendation, AInv, Shown
<1>6. project' = [project EXCEPT ![t] = None]
  BY <1>5, LeftAlone
<1> QED
  BY <1>4, <1>5, <1>6, CommandInforms

\* A profile comes with the fit that belongs to it.
LEMMA AddHardwareInforms ==
    ASSUME AInv, NEW t \in Terminals, AddHardware(t) PROVE Shown' /\ Informed'
<1>1. PICK h \in readings : project' = [project EXCEPT ![t] = WithHardware(project[t], h)]
  BY DEF AddHardware
<1>2. PICK p \in Projects : p = project[t]
  BY LeftAlone DEF AddHardware
<1>3. h \in Profiled /\ h # None
  <2>1. h \in Profiled
    BY DEF AInv, WInv, Types, Profiled
  <2> QED
    BY <2>1, ProfiledType, ValuesAssumption
<1>4. PICK q : q = WithHardware(p, h)
  OBVIOUS
<1>5. q \in Projects /\ q.note = p.note /\ q.size = p.size /\ Content(q) = Content(p)
  BY <1>2, <1>3, <1>4, WithHardwareType
<1>6. /\ q.training = p.training /\ q.arch = p.arch /\ q.hardware = h
      /\ q.recommendation =
           IF p.note = "created"
           THEN Fit(h, p.size, DefaultTraining, DefaultArchitecture(p.size))
           ELSE Fit(h, p.size, p.training, p.arch)
  BY <1>2, <1>4 DEF WithHardware, Projects
<1>7. p.note = "created" => p.training = DefaultTraining
  BY <1>2, ProjectFields DEF AInv, Informed
<1>8. q # None /\ Fresh(q) /\ (q.note = "created" => q.training = DefaultTraining)
  BY <1>3, <1>5, <1>6, <1>7, ProjectFields DEF Fresh
<1>9. /\ pc' = [pc EXCEPT ![t] = "ready"] /\ project' = [project EXCEPT ![t] = q]
      /\ UNCHANGED <<world, request, printed, file, window, intent>> /\ count' \in Counts
  BY <1>1, <1>2, <1>4 DEF AddHardware, AInv, Shown
<1>10. PICK r \in Requests \cup {None} : r = request[t] /\ request' = [request EXCEPT ![t] = r]
  BY <1>9, LeftAlone
<1>11. PICK o \in Answers \cup Plans \cup {None} :
         o = printed[t] /\ printed' = [printed EXCEPT ![t] = o]
  BY <1>9, LeftAlone
<1> QED
  BY <1>5, <1>8, <1>9, <1>10, <1>11, CommandInforms

\* A command that is killed leaves nothing behind.
LEMMA KillInforms == ASSUME AInv, NEW t \in Terminals, Kill(t) PROVE Shown' /\ Informed'
<1>1. /\ pc' = [pc EXCEPT ![t] = "idle"] /\ project' = [project EXCEPT ![t] = None]
      /\ request' = [request EXCEPT ![t] = None]
      /\ UNCHANGED <<world, printed, file, window, intent>> /\ count' \in Counts
  BY BoundedType DEF Kill, AInv, Shown
<1>2. PICK o \in Answers \cup Plans \cup {None} :
         o = printed[t] /\ printed' = [printed EXCEPT ![t] = o]
  BY <1>1, LeftAlone
<1> QED
  BY <1>1, <1>2, CommandInforms

\* A project is as it should be from before the file is truncated ...
LEMMA BeginSaveInforms ==
    ASSUME AInv, NEW t \in Terminals, BeginSave(t) PROVE Shown' /\ Informed'
<1>1. /\ pc[t] = "ready" /\ pc' = [pc EXCEPT ![t] = "saving"] /\ file' = Torn
      /\ UNCHANGED <<project, request, printed, now, window, intent, count>>
  BY DEF BeginSave, world
<1>2. Shown'
  BY <1>1 DEF AInv, Shown
<1>3. ASSUME NEW u \in Terminals
      PROVE  pc'[u] = pc[u] \/ (pc[u] = "ready" /\ pc'[u] = "saving")
  BY <1>1 DEF AInv, WInv, Types
<1>4. ~Loadable'
  BY <1>1 DEF Loadable
<1>5. Informed'
  BY <1>1, <1>3, <1>4 DEF AInv, Informed
<1> QED
  BY <1>2, <1>5

\* ... until it is in it.
LEMMA EndSaveInforms ==
    ASSUME AInv, NEW t \in Terminals, EndSave(t) PROVE Shown' /\ Informed'
<1>1. /\ pc[t] = "saving" /\ pc' = [pc EXCEPT ![t] = "idle"]
      /\ project' = [project EXCEPT ![t] = None] /\ file' \in {project[t], Torn}
      /\ UNCHANGED <<request, printed, now, window, count>>
      /\ intent' \in {intent, Content(project[t]), None}
  BY DEF EndSave, world
<1>2. project[t] \in Projects /\ Fresh(project[t])
  BY <1>1 DEF AInv, WInv, Types, Held, Informed
<1>3. intent' \in Intents
  <2>1. Content(project[t]) \in [size : Sizes, arch : Architectures, training : Trainings]
    BY <1>2, ProjectFields DEF Content
  <2> QED
    BY <1>1, <2>1 DEF AInv, Shown, Intents
<1>4. Shown'
  BY <1>1, <1>3 DEF AInv, Shown
<1>5. /\ pc'[t] = "idle" /\ project'[t] = None
      /\ \A u \in Terminals \ {t} : pc'[u] = pc[u] /\ project'[u] = project[u]
  BY <1>1 DEF AInv, WInv, Types
<1>6. Loadable' => Fresh(file')
  BY <1>1, <1>2 DEF Loadable
<1>7. Informed'
  BY <1>1, <1>5, <1>6 DEF AInv, Informed
<1> QED
  BY <1>4, <1>7

\* An edit says of itself that it is one.
LEMMA EditInforms == ASSUME AInv, Edit PROVE Shown' /\ Informed'
<1>1. PICK training \in Trainings, context \in Contexts :
          file' = [file EXCEPT !.training = training, !.note = "edited",
                               !.arch = WithContext(file.size, context)]
  BY DEF Edit
<1>2. /\ UNCHANGED <<pc, project, request, printed, now, window>> /\ count' \in Counts
      /\ intent' \in {Content(file'), None}
  BY BoundedType DEF Edit, world, commands, AInv, Shown
<1>3. PICK p \in Projects : p = file
  BY LoadableIsProject DEF AInv, WInv, Edit
<1>4. PICK q : q = [p EXCEPT !.training = training, !.note = "edited",
                             !.arch = WithContext(p.size, context)]
  OBVIOUS
<1>5. q \in Projects /\ q.note = "edited" /\ file' = q
  <2>1. q \in Projects
    BY <1>4, EditedType
  <2>2. q.note = "edited"
    BY <1>4 DEF Projects
  <2> QED
    BY <1>1, <1>3, <1>4, <2>1, <2>2
<1>6. intent' \in Intents
  <2>1. Content(q) \in [size : Sizes, arch : Architectures, training : Trainings]
    BY <1>5, ProjectFields DEF Content
  <2>2. Content(file') = Content(q)
    BY <1>5
  <2> QED
    BY <1>2, <2>1, <2>2 DEF Intents
<1>7. Shown'
  BY <1>2, <1>6 DEF AInv, Shown
<1>8. Fresh(file')
  BY <1>5 DEF Fresh
<1>9. Informed'
  BY <1>2, <1>8 DEF AInv, Informed
<1> QED
  BY <1>7, <1>9

\* The machine, the license, the environment and the clock show nothing.
LEMMA WorldInforms ==
    ASSUME AInv, ChangeMachine \/ InstallLicense \/ SetEnvironment \/ Tick
    PROVE  Shown' /\ Informed'
<1>1. UNCHANGED <<commands, file, window, intent>>
  BY DEF ChangeMachine, InstallLicense, SetEnvironment, Tick
<1>2. count' \in Counts
  BY BoundedType DEF ChangeMachine, InstallLicense, SetEnvironment, Tick, AInv, Shown
<1>3. now' \in Times
  BY DEF ChangeMachine, InstallLicense, SetEnvironment, Tick, AInv, Shown
<1>4. window' \in Windows /\ intent' \in Intents
  BY <1>1 DEF AInv, Shown
<1> QED
  BY <1>1, <1>2, <1>3, <1>4, FrameInforms

\* The window shows what its thread has put into the queue.
LEMMA WindowInforms ==
    ASSUME AInv, Open \/ Detect \/ Poll \/ Close
    PROVE  Shown' /\ Informed'
<1>1. UNCHANGED <<commands, file, intent, now>>
  BY DEF Open, Detect, Poll, Close, world
<1>2. count' \in Counts
  BY BoundedType DEF Open, Detect, Poll, Close, AInv, Shown
<1>3. now' \in Times /\ intent' \in Intents
  BY <1>1 DEF AInv, Shown
<1>4. window \in Windows
  BY DEF AInv, Shown
<1>5. Closed \in Windows
  <2>1. << >> \in Seq(Answers \cup Failures)
    OBVIOUS
  <2> QED
    BY <2>1 DEF Closed, Windows
<1>6. window' \in Windows
  <2>1. CASE Open \/ Close
    BY <1>5, <2>1 DEF Open, Close, Windows
  <2>2. CASE Detect
    <3>1. PICK answer \in {[kind |-> "failure"]} \cup
              {Recommendation(h, DefaultTraining, NoContext) : h \in readings} :
            window' = [window EXCEPT !.detecting = FALSE, !.queue = Append(@, answer)]
      BY <2>2 DEF Detect
    <3>2. answer \in Answers \cup Failures
      <4>1. readings \subseteq Profiled
        BY DEF AInv, WInv, Types, Profiled
      <4> QED
        BY <3>1, <4>1, TrainingsAssumption DEF Answers, Failures
    <3>3. Append(window.queue, answer) \in Seq(Answers \cup Failures)
      BY <1>4, <3>2 DEF Windows
    <3> QED
      BY <1>4, <3>1, <3>3 DEF Windows
  <2>3. CASE Poll
    <3>1. CASE window.queue = << >>
      BY <1>4, <2>3, <3>1 DEF Poll, Polled
    <3>2. CASE window.queue # << >>
      <4>1. PICK q \in Seq(Answers \cup Failures) : q = window.queue /\ q # << >>
        BY <1>4, <3>2 DEF Windows
      <4>2. Tail(q) \in Seq(Answers \cup Failures) /\ Head(q) \in Answers \cup Failures
        BY <4>1
      <4>3. PICK state \in {"failed", "shown"} :
              window' = [window EXCEPT !.timer = FALSE, !.queue = Tail(q), !.shown = Head(q),
                                       !.renders = @ + 1, !.state = state]
        BY <2>3, <3>2, <4>1 DEF Poll, Polled
      <4>4. window.renders + 1 \in Nat
        BY <1>4 DEF Windows
      <4> QED
        BY <1>4, <4>2, <4>3, <4>4 DEF Windows
    <3> QED
      BY <3>1, <3>2
  <2> QED
    BY <2>1, <2>2, <2>3
<1> QED
  BY <1>1, <1>2, <1>3, <1>6, FrameInforms

\* Every step, and every step of something else.
LEMMA AdviceStepHolds == AInv /\ [Next]_vars => AInv'
<1> SUFFICES ASSUME AInv, [Next]_vars PROVE AInv'
  OBVIOUS
<1>1. WInv'
  BY StepHolds DEF AInv
<1>2. CASE UNCHANGED vars
  <2>1. UNCHANGED <<commands, file, now, window, intent, count>>
    BY <1>2 DEF vars, world
  <2>2. now' \in Times /\ window' \in Windows /\ intent' \in Intents /\ count' \in Counts
    BY <2>1 DEF AInv, Shown
  <2> QED
    BY <1>1, <2>1, <2>2, FrameInforms DEF AInv
<1>3. CASE \E t \in Terminals :
              Create(t) \/ Refresh(t) \/ RecommendSizes(t) \/ Plan(t) \/ Run(t) \/ Kill(t)
  BY <1>1, <1>3, CreateInforms, RefreshInforms, RecommendInforms, PlanInforms, PrintInforms,
     AddHardwareInforms, BeginSaveInforms, EndSaveInforms, KillInforms DEF Run, AInv
<1>4. CASE Edit \/ ChangeMachine \/ InstallLicense \/ SetEnvironment \/ Tick
  BY <1>1, <1>4, EditInforms, WorldInforms DEF AInv
<1>5. CASE Open \/ Detect \/ Poll \/ Close
  BY <1>1, <1>5, WindowInforms DEF AInv
<1> QED
  BY <1>2, <1>3, <1>4, <1>5 DEF Next

-----------------------------------------------------------------------------
(***************************************************************************)
(* Theorems about the advice.                                              *)
(***************************************************************************)
\* The variables have their types; in particular a profile of any machine is one.
THEOREM WorkbenchTypeCorrect == Spec => []TypeOK
BY AdviceTypes, AdviceAtFirst, AdviceStepHolds, PTL DEF Spec

\* The advice in the file belongs to the hardware beside it, whose adapter the machine has,
\* whatever commands overlap or are killed; and a plan asks for no less than the advice
\* (core/hardware/profiler.py, core/project.py, Pipeline.plan).
THEOREM AdviceIsForTheMachine == Spec => []AdviceFitsProject
BY AdviceFits, AdviceAtFirst, AdviceStepHolds, PTL DEF Spec

\* For any machines, knobs and context lengths: a larger model never looks better, and more
\* hardware is never told worse (core/sizing/engine.py).
THEOREM MoreIsNeverWorse == Spec => []AdviceIsMonotone
BY AnswersAreMonotone, AdviceAtFirst, AdviceStepHolds, PTL DEF Spec

-----------------------------------------------------------------------------
(***************************************************************************)
(* The window.                                                             *)
(***************************************************************************)
\* A window renders while its timer is not yet out, and then no more; while it detects, the
\* timer is due, and the answer is in the queue or with the thread, which gives one answer.
Awaited ==
    /\ window.renders <= 1 /\ (window.timer => window.renders = 0)
    /\ window.state = "detecting" => window.timer /\ (window.detecting \/ window.queue # << >>)
    /\ window.detecting => window.queue = << >>
    /\ Len(window.queue) <= 1

\* Its thread and its timer are the only ones to touch it while it is open.
LEMMA AwaitedStep ==
    ASSUME window \in Windows, Awaited, [Next]_vars PROVE Awaited'
<1> USE DEF Awaited
<1>1. CASE UNCHANGED window
  BY <1>1
<1>2. CASE Open \/ Close
  <2>1. /\ window'.renders = 0 /\ window'.queue = << >>
        /\ window'.state = "detecting" => window'.timer /\ window'.detecting
    <3>1. CASE Open
      BY <3>1 DEF Open, Closed
    <3>2. CASE Close
      BY <3>2 DEF Close, Closed
    <3> QED
      BY <1>2, <3>1, <3>2
  <2> QED
    BY <2>1
<1>3. CASE Detect
  <2>1. PICK answer :
          window' = [window EXCEPT !.detecting = FALSE, !.queue = Append(@, answer)]
    BY <1>3 DEF Detect
  <2>2. /\ window'.renders = window.renders /\ window'.timer = window.timer
        /\ window'.state = window.state /\ ~window'.detecting
        /\ window'.queue = Append(window.queue, answer)
    BY <2>1 DEF Windows
  <2>3. window.queue = << >>
    BY <1>3 DEF Detect
  <2> QED
    BY <2>2, <2>3
<1>4. CASE Poll
  <2>1. CASE window.queue = << >>
    BY <1>4, <2>1 DEF Poll, Polled
  <2>2. CASE window.queue # << >>
    <3>1. PICK state \in {"failed", "shown"} :
            window' = [window EXCEPT !.timer = FALSE, !.queue = Tail(window.queue),
                                     !.shown = Head(window.queue), !.renders = @ + 1,
                                     !.state = state]
      BY <1>4, <2>2 DEF Poll, Polled
    <3>2. /\ window'.renders = window.renders + 1 /\ ~window'.timer
          /\ window'.state = state /\ window'.detecting = window.detecting
          /\ window'.queue = Tail(window.queue)
      BY <3>1 DEF Windows
    <3>3. PICK q \in Seq(Answers \cup Failures) : q = window.queue
      BY DEF Windows
    <3>4. Tail(q) = << >>
      BY <2>2, <3>3
    <3> QED
      BY <1>4, <3>1, <3>2, <3>3, <3>4 DEF Poll
  <2> QED
    BY <2>1, <2>2
<1> QED
  BY <1>1, <1>2, <1>3, <1>4
     DEF Next, vars, Create, Refresh, RecommendSizes, Plan, Run, PrintRecommendation,
         AddHardware, BeginSave, EndSave, Kill, Edit, ChangeMachine, InstallLicense,
         SetEnvironment, Tick

\* The safety part of WindowAnswers: a window renders once, and one that detects is never
\* left without a timer, nor without an answer or a thread that will give it
\* (poll and _detect of apps/desktop/main.py).
THEOREM WindowIsServed ==
    Spec => /\ [][window'.renders <= 1]_vars
            /\ [](window.state = "detecting" =>
                    window.timer /\ (window.detecting \/ window.queue # << >>))
<1> DEFINE Once  == window'.renders <= 1
           Alive == window.state = "detecting" =>
                      window.timer /\ (window.detecting \/ window.queue # << >>)
<1>1. Init => Awaited
  BY DEF Init, Closed, Awaited
<1>2. AInv => window \in Windows
  BY DEF AInv, Shown
<1>3. AInv /\ Awaited /\ [Next]_vars => Awaited'
  BY <1>2, AwaitedStep
<1>4. Awaited' => Once
  BY DEF Awaited
<1>5. Awaited => Alive
  BY DEF Awaited
<1> HIDE DEF Once, Alive
<1>6. Spec => [][Once]_vars /\ []Alive
  BY <1>1, <1>3, <1>4, <1>5, AdviceAtFirst, AdviceStepHolds, PTL DEF Spec
<1> QED
  BY <1>6 DEF Once, Alive
=============================================================================
