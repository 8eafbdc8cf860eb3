------------------------------ MODULE SizingProofs ------------------------------
(***************************************************************************)
(* Theorems about the fit engine and the profiler, for any hardware,       *)
(* training knobs and architecture: what they return, that the engine is   *)
(* monotone, and that the adapter it is told of is one of the machine's.   *)
(***************************************************************************)
EXTENDS Sizing, Profiler, Counting, TLAPS

-----------------------------------------------------------------------------
(***************************************************************************)
(* Arithmetic.                                                             *)
(***************************************************************************)
\* Products of natural numbers grow with their factors.
LEMMA ProductGrows ==
    \A a, b, c, d \in Nat : a <= b /\ c <= d => a * c <= b * d
<1> SUFFICES ASSUME NEW a \in Nat, NEW b \in Nat, NEW c \in Nat, NEW d \in Nat, a <= b, c <= d
             PROVE  a * c <= b * d
  OBVIOUS
<1>1. PICK x \in Nat : b = a + x
  BY b - a \in Nat, b = a + (b - a)
<1>2. PICK y \in Nat : d = c + y
  BY d - c \in Nat, d = c + (d - c)
<1>3. b * d = a * c + a * y + x * c + x * y
  BY <1>1, <1>2
<1>4. a * c \in Nat /\ a * y \in Nat /\ x * c \in Nat /\ x * y \in Nat
  OBVIOUS
<1> QED
  BY <1>3, <1>4

\* A positive factor can be taken from both sides.
LEMMA CancelFactor ==
    \A k \in Nat \ {0}, x, y \in Int : (k * x <= k * y => x <= y) /\ (k * x = k * y => x = y)
<1> SUFFICES ASSUME NEW k \in Nat \ {0}, NEW x \in Int, NEW y \in Int, x > y
             PROVE  k * x > k * y
  <2>1. ASSUME \A u, v \in Int : \A m \in Nat \ {0} : u > v => m * u > m * v
        PROVE  \A m \in Nat \ {0}, u, v \in Int :
                  (m * u <= m * v => u <= v) /\ (m * u = m * v => u = v)
    <3> SUFFICES ASSUME NEW m \in Nat \ {0}, NEW u \in Int, NEW v \in Int
                 PROVE  (m * u <= m * v => u <= v) /\ (m * u = m * v => u = v)
      OBVIOUS
    <3>1. m * u \in Int /\ m * v \in Int
      OBVIOUS
    <3> QED
      BY <3>1, <2>1
  <2> QED
    BY <2>1
<1>1. k * (x - y) >= k
  BY x - y \in Int, MultipleIsFar
<1> QED
  BY <1>1

\* A rounded quotient is within a half of it, and is even when it is off by a half.
LEMMA RoundIsNear ==
    ASSUME NEW n \in Nat, NEW d \in Nat \ {0}
    PROVE  /\ Round(n, d) \in Nat
           /\ d * (2 * Round(n, d) - 1) <= 2 * n /\ 2 * n <= d * (2 * Round(n, d) + 1)
           /\ 2 * n \in {d * (2 * Round(n, d) - 1), d * (2 * Round(n, d) + 1)} =>
                Round(n, d) % 2 = 0
<1>1. PICK q \in Int : q = n \div d
  BY DivMod
<1>2. PICK r \in 0 .. d - 1 : r = n % d
  BY DivMod
<1>3. n = d * q + r
  BY <1>1, <1>2, DivMod
<1>4. q \in Nat
  <2>1. CASE q < 0
    <3>1. d * q <= -d
      BY <2>1, MultipleIsFar
    <3> QED
      BY <3>1, <1>3
  <2> QED
    BY <2>1
<1>5. Round(n, d) = IF 2 * r > d \/ (2 * r = d /\ q % 2 = 1) THEN q + 1 ELSE q
  BY <1>1, <1>2 DEF Round
<1>6. PICK p \in Nat : p = d * q
  BY <1>4
<1>7. d * (2 * q - 1) = 2 * p - d /\ d * (2 * q + 1) = 2 * p + d /\ d * (2 * (q + 1) + 1) = 2 * p + 3 * d
      /\ d * (2 * (q + 1) - 1) = 2 * p + d
  BY <1>6
<1>8. 2 * n = 2 * p + 2 * r
  BY <1>3, <1>6
<1>9. CASE 2 * r > d \/ (2 * r = d /\ q % 2 = 1)
  <2>1. Round(n, d) = q + 1
    BY <1>5, <1>9
  <2>2. 2 * r = d => (q + 1) % 2 = 0
    BY <1>4, <1>9
  <2> QED
    BY <2>1, <2>2, <1>4, <1>7, <1>8, <1>9
<1>10. CASE ~(2 * r > d \/ (2 * r = d /\ q % 2 = 1))
  <2>1. Round(n, d) = q
    BY <1>5, <1>10
  <2>2. 2 * r = d => q % 2 = 0
    BY <1>4, <1>10
  <2> QED
    BY <2>1, <2>2, <1>4, <1>7, <1>8, <1>10
<1> QED
  BY <1>9, <1>10

\* Rounding keeps the order of fractions.
LEMMA RoundKeepsOrder ==
    ASSUME NEW n \in Nat, NEW d \in Nat \ {0}, NEW m \in Nat, NEW e \in Nat \ {0},
           n * e <= m * d
    PROVE  Round(n, d) <= Round(m, e)
<1>1. PICK p \in Nat : p = Round(n, d)
  BY RoundIsNear
<1>2. PICK r \in Nat : r = Round(m, e)
  BY RoundIsNear
<1>3. d * (2 * p - 1) <= 2 * n /\ (2 * n = d * (2 * p - 1) => p % 2 = 0)
  BY <1>1, RoundIsNear
<1>4. 2 * m <= e * (2 * r + 1) /\ (2 * m = e * (2 * r + 1) => r % 2 = 0)
  BY <1>2, RoundIsNear
<1> SUFFICES ASSUME p > r PROVE FALSE
  BY <1>1, <1>2
<1>5. PICK a \in Int : a = 2 * p - 1
  OBVIOUS
<1>6. PICK b \in Int : b = 2 * r + 1
  OBVIOUS
<1>7. a >= b /\ b \in Nat /\ a \in Nat
  BY <1>5, <1>6
<1>8. (d * a) * e <= (2 * n) * e
  <2>1. d * a \in Nat /\ 2 * n \in Nat /\ d * a <= 2 * n
    BY <1>3, <1>5, <1>7
  <2> QED
    BY <2>1, ProductGrows
<1>9. (2 * m) * d <= (e * b) * d
  <2>1. e * b \in Nat /\ 2 * m \in Nat /\ 2 * m <= e * b
    BY <1>4, <1>6, <1>7
  <2> QED
    BY <2>1, ProductGrows
<1>10. PICK k \in Nat \ {0} : k = d * e
  <2>1. d * e \in Nat \ {0}
    BY MultipleIsFar
  <2> QED
    BY <2>1
<1>11. (d * a) * e = k * a /\ (e * b) * d = k * b
  BY <1>10
<1>12. (2 * n) * e = 2 * (n * e) /\ (2 * m) * d = 2 * (m * d)
  OBVIOUS
<1>13. k * a <= (2 * n) * e /\ (2 * n) * e <= (2 * m) * d /\ (2 * m) * d <= k * b
  <2>1. n * e \in Nat /\ m * d \in Nat
    OBVIOUS
  <2> QED
    BY <2>1, <1>8, <1>9, <1>11, <1>12
<1>14. k * a \in Int /\ k * b \in Int /\ (2 * n) * e \in Int /\ (2 * m) * d \in Int
  OBVIOUS
<1>15. a = b
  <2>1. a <= b
    BY <1>13, <1>14, CancelFactor
  <2> QED
    BY <2>1, <1>7
<1>16. (d * a) * e = (2 * n) * e /\ (e * b) * d = (2 * m) * d
  BY <1>11, <1>13, <1>14, <1>15
<1>17. d * a = 2 * n /\ e * b = 2 * m
  <2>1. /\ e * (d * a) = e * (2 * n) /\ d * (e * b) = d * (2 * m)
        /\ d * a \in Int /\ e * b \in Int /\ 2 * n \in Int /\ 2 * m \in Int
    BY <1>16
  <2> QED
    BY <2>1, CancelFactor
<1>18. p % 2 = 0 /\ r % 2 = 0 /\ p = r + 1
  BY <1>3, <1>4, <1>5, <1>6, <1>15, <1>17
<1> QED
  BY <1>18

\* The numerator alone may grow.
LEMMA RoundGrows ==
    ASSUME NEW n \in Nat, NEW m \in Nat, NEW d \in Nat \ {0}, n <= m
    PROVE  Round(n, d) <= Round(m, d)
<1>1. n * d <= m * d
  BY ProductGrows
<1> QED
  BY <1>1, RoundKeepsOrder

-----------------------------------------------------------------------------
(***************************************************************************)
(* What the engine estimates.                                              *)
(***************************************************************************)
\* An architecture, and one that is no larger than another.
Shapes == [vocabulary : Nat, context : Nat, layers : Nat, hidden : Nat, heads : Nat]

Within(a, b) ==
    /\ a.vocabulary <= b.vocabulary /\ a.context <= b.context
    /\ a.layers <= b.layers /\ a.hidden <= b.hidden /\ a.heads <= b.heads

\* The sizes of the catalog and their parameters.
LEMMA SizeFacts ==
    ASSUME NEW size \in Sizes
    PROVE  /\ size \in {"20M", "50M", "100M", "200M", "500M"}
           /\ Millions(size) \in {20, 50, 100, 200, 500}
<1>1. size \in {"20M", "50M", "100M", "200M", "500M"}
  BY DEF Sizes, ALL_SIZES
<1> QED
  BY <1>1 DEF Millions

\* The memory of the parameters grows with their number.
LEMMA ParametersGrow ==
    ASSUME NEW s \in Sizes, NEW t \in Sizes, Millions(s) <= Millions(t), NEW bytes \in Nat
    PROVE  Parameters(s, bytes) \in Nat /\ Parameters(s, bytes) <= Parameters(t, bytes)
<1>1. PICK m \in Nat : m = Millions(s)
  BY SizeFacts
<1>2. PICK n \in Nat : n = Millions(t)
  BY SizeFacts
<1>3. m * bytes \in Nat /\ n * bytes \in Nat /\ m * bytes <= n * bytes
  BY <1>1, <1>2, ProductGrows
<1>4. PICK x \in Nat : x = m * bytes * 390625
  BY <1>3
<1>5. PICK y \in Nat : y = n * bytes * 390625
  BY <1>3
<1>6. x <= y
  BY <1>3, <1>4, <1>5
<1>7. Round(x, 4194304) \in Nat /\ Round(x, 4194304) <= Round(y, 4194304)
  BY <1>6, RoundIsNear, RoundGrows
<1> QED
  BY <1>1, <1>2, <1>4, <1>5, <1>7 DEF Parameters

\* So do the activations with the architecture.
LEMMA ActivationsGrow ==
    ASSUME NEW training \in TrainingSpecs, NEW a \in Shapes, NEW b \in Shapes, Within(a, b)
    PROVE  /\ Activations(training, a) \in Nat
           /\ Activations(training, a) <= Activations(training, b)
<1> DEFINE Feature(x) == x.context * x.hidden * x.layers * (2 + 4)
           Attend(x)  == x.heads * x.context * x.context * x.layers
           bytes      == IF training.mixed THEN 2 ELSE 4
           Total(x)   == training.batch * (Feature(x) + Attend(x)) * bytes * 100
<1>1. ASSUME NEW x \in Shapes PROVE Feature(x) \in Nat /\ Attend(x) \in Nat
  BY DEF Shapes
<1>2. Feature(a) <= Feature(b)
  <2>1. a.context * a.hidden \in Nat /\ b.context * b.hidden \in Nat
        /\ a.context * a.hidden <= b.context * b.hidden
    BY ProductGrows DEF Shapes, Within
  <2>2. (a.context * a.hidden) * a.layers <= (b.context * b.hidden) * b.layers
    BY <2>1, ProductGrows DEF Shapes, Within
  <2>3. (a.context * a.hidden) * a.layers \in Nat /\ (b.context * b.hidden) * b.layers \in Nat
    BY DEF Shapes
  <2> QED
    BY <2>2, <2>3
<1>3. Attend(a) <= Attend(b)
  <2>1. a.heads * a.context \in Nat /\ b.heads * b.context \in Nat
        /\ a.heads * a.context <= b.heads * b.context
    BY ProductGrows DEF Shapes, Within
  <2>2. (a.heads * a.context) * a.context <= (b.heads * b.context) * b.context
    BY <2>1, ProductGrows DEF Shapes, Within
  <2>3. (a.heads * a.context) * a.context \in Nat /\ (b.heads * b.context) * b.context \in Nat
    BY DEF Shapes
  <2> QED
    BY <2>2, <2>3, ProductGrows DEF Shapes, Within
<1>4. PICK f \in Nat : f = Feature(a) + Attend(a)
  BY <1>1
<1>5. PICK g \in Nat : g = Feature(b) + Attend(b)
  BY <1>1
<1>6. f <= g
  BY <1>1, <1>2, <1>3, <1>4, <1>5
<1>7. /\ training.batch * f \in Nat /\ training.batch * g \in Nat
      /\ training.batch * f <= training.batch * g
  BY <1>6, ProductGrows DEF TrainingSpecs
<1>8. Total(a) \in Nat /\ Total(b) \in Nat /\ Total(a) <= Total(b)
  <2>1. Total(a) = (training.batch * f) * bytes * 100 /\ Total(b) = (training.batch * g) * bytes * 100
    BY <1>4, <1>5
  <2> QED
    BY <1>7, <2>1
<1>9. Activations(training, a) = Round(Total(a), 65536) /\ Activations(training, b) = Round(Total(b), 65536)
  BY DEF Activations
<1> HIDE DEF Total
<1> QED
  BY <1>8, <1>9, RoundIsNear, RoundGrows

\* So does the memory that is required, which of the hardware depends only on whether there
\* is an adapter.
LEMMA MemoryGrows ==
    ASSUME NEW h, NEW k, h.gpu.vendor = k.gpu.vendor,
           NEW s \in Sizes, NEW t \in Sizes, Millions(s) <= Millions(t),
           NEW training \in TrainingSpecs, NEW a \in Shapes, NEW b \in Shapes, Within(a, b)
    PROVE  /\ MemoryRequired(h, s, training, a) \in Nat \ {0}
           /\ MemoryRequired(h, s, training, a) <= MemoryRequired(k, t, training, b)
<1> DEFINE Tokenizer(x) == Round(500000 + 8 * x.vocabulary, 100000)
<1>1. Tokenizer(a) \in Nat /\ Tokenizer(b) \in Nat /\ Tokenizer(a) <= Tokenizer(b)
  <2>1. PICK m \in Nat : m = 500000 + 8 * a.vocabulary
    BY DEF Shapes
  <2>2. PICK n \in Nat : n = 500000 + 8 * b.vocabulary
    BY DEF Shapes
  <2>3. m <= n
    BY <2>1, <2>2 DEF Shapes, Within
  <2>4. Round(m, 100000) \in Nat /\ Round(n, 100000) \in Nat
        /\ Round(m, 100000) <= Round(n, 100000)
    BY <2>3, RoundIsNear, RoundGrows
  <2> QED
    BY <2>1, <2>2, <2>4
<1>2. /\ Activations(training, a) \in Nat /\ Activations(training, b) \in Nat
      /\ Activations(training, a) <= Activations(training, b)
  <2>1. Within(b, b)
    BY DEF Within, Shapes
  <2> QED
    BY <2>1, ActivationsGrow
<1>3. \A n \in {2, 4, 8} : /\ Parameters(s, n) \in Nat /\ Parameters(t, n) \in Nat
                           /\ Parameters(s, n) <= Parameters(t, n)
  <2>1. Millions(t) <= Millions(t)
    BY SizeFacts
  <2> QED
    BY <2>1, ParametersGrow
<1>4. /\ MasterCopy(s, training) \in Nat /\ Gradients(s, training) \in Nat
      /\ MasterCopy(t, training) \in Nat /\ Gradients(t, training) \in Nat
      /\ MasterCopy(s, training) <= MasterCopy(t, training)
      /\ Gradients(s, training) <= Gradients(t, training)
  <2>1. CASE training.mixed
    BY <1>3, <2>1 DEF MasterCopy, Gradients
  <2>2. CASE ~training.mixed
    BY <1>3, <2>2 DEF MasterCopy, Gradients
  <2> QED
    BY <2>1, <2>2
<1>5. Runtime(h) \in Nat \ {0} /\ Runtime(k) = Runtime(h)
  BY DEF Runtime
<1>6. PICK S : S = Subtotal(h, s, training, a)
  OBVIOUS
<1>7. PICK T : T = Subtotal(k, t, training, b)
  OBVIOUS
<1>8. S \in Nat \ {0} /\ T \in Nat \ {0} /\ S <= T
  <2>1. training.batch \in Nat
    BY DEF TrainingSpecs
  <2>2. S = Parameters(s, 4) + MasterCopy(s, training) + Gradients(s, training)
            + Parameters(s, 8) + Activations(training, a) + Tokenizer(a)
            + 20 + training.batch + Runtime(h)
    BY <1>6 DEF Subtotal
  <2>3. T = Parameters(t, 4) + MasterCopy(t, training) + Gradients(t, training)
            + Parameters(t, 8) + Activations(training, b) + Tokenizer(b)
            + 20 + training.batch + Runtime(h)
    BY <1>5, <1>7 DEF Subtotal
  <2> HIDE DEF Tokenizer
  <2> QED
    BY <1>1, <1>2, <1>3, <1>4, <1>5, <2>1, <2>2, <2>3
<1>9. Round(S, 4) \in Nat /\ Round(T, 4) \in Nat /\ Round(S, 4) <= Round(T, 4)
  BY <1>8, RoundIsNear, RoundGrows
<1>10. MemoryRequired(h, s, training, a) = S + Round(S, 4)
       /\ MemoryRequired(k, t, training, b) = T + Round(T, 4)
  BY <1>6, <1>7 DEF MemoryRequired
<1> QED
  BY <1>8, <1>9, <1>10

\* And so does the disk.
LEMMA DiskGrows ==
    ASSUME NEW s \in Sizes, NEW t \in Sizes, Millions(s) <= Millions(t)
    PROVE  DiskRequired(s) \in Nat /\ DiskRequired(s) <= DiskRequired(t)
<1>1. /\ Parameters(s, 10) \in Nat /\ Parameters(t, 10) \in Nat
      /\ Parameters(s, 10) <= Parameters(t, 10)
  <2>1. Millions(t) <= Millions(t)
    BY SizeFacts
  <2> QED
    BY <2>1, ParametersGrow
<1>2. PICK m \in Nat : m = 350 + 4 * Millions(s)
  BY SizeFacts
<1>3. PICK n \in Nat : n = 350 + 4 * Millions(t)
  BY SizeFacts
<1>4. m <= n
  BY <1>2, <1>3, SizeFacts
<1>5. Round(m, 10) \in Nat /\ Round(n, 10) \in Nat /\ Round(m, 10) <= Round(n, 10)
  BY <1>4, RoundIsNear, RoundGrows
<1> QED
  BY <1>1, <1>2, <1>3, <1>5 DEF DiskRequired

-----------------------------------------------------------------------------
(***************************************************************************)
(* What the engine advises.                                                *)
(***************************************************************************)
\* Hardware h has at least what k has, of the same kind; and a disk with nothing free, which
\* the engine passes, only against itself.
Outdoes(h, k) ==
    /\ h.gpu.vendor = k.gpu.vendor /\ k.gpu.memory <= h.gpu.memory
    /\ k.cores <= h.cores /\ k.available <= h.available
    /\ k.free <= h.free /\ (k.free = h.free \/ 0 < Round(k.free, 10))

\* More memory, for less: the class is no worse.
LEMMA ClassKeepsOrder ==
    ASSUME NEW x \in Nat, NEW y \in Nat, y <= x, NEW q \in Nat, NEW r \in Nat, q <= r
    PROVE  /\ ClassifyMemory(x, q) \in 1 .. 4
           /\ ClassifyMemory(x, q) <= ClassifyMemory(y, r)
BY DEF ClassifyMemory

\* Nor does the disk make it worse.
LEMMA GateKeepsOrder ==
    ASSUME NEW x \in Nat, NEW y \in Nat, y = x \/ (0 < y /\ y <= x),
           NEW q \in Nat, NEW r \in Nat, q <= r,
           NEW c \in 1 .. 4, NEW d \in 1 .. 4, c <= d
    PROVE  ApplyDiskGating(c, q, x) <= ApplyDiskGating(d, r, y)
BY DEF ApplyDiskGating, AtLeast

\* The difficulty is no higher.
LEMMA DifficultyKeepsOrder ==
    ASSUME NEW h \in Hardwares, NEW k \in Hardwares, Outdoes(h, k),
           NEW s \in Sizes, NEW t \in Sizes, Millions(s) <= Millions(t)
    PROVE  Difficulty(h, s) \in Nat /\ Difficulty(h, s) <= Difficulty(k, t)
<1>1. PICK m \in Nat : m = Millions(s)
  BY SizeFacts
<1>2. PICK n \in Nat : n = Millions(t)
  BY SizeFacts
<1>3. PICK c \in Nat : c = h.cores
  BY DEF Hardwares
<1>4. PICK d \in Nat : d = k.cores
  BY DEF Hardwares
<1>5. m <= n /\ d <= c /\ h.gpu.vendor = k.gpu.vendor
  BY <1>1, <1>2, <1>3, <1>4 DEF Outdoes
<1> QED
  BY <1>1, <1>2, <1>3, <1>4, <1>5 DEF Difficulty

\* The capacity is no lower, when no more is required.
LEMMA CapacityKeepsOrder ==
    ASSUME NEW h \in Hardwares, NEW k \in Hardwares, Outdoes(h, k),
           NEW q \in Nat, NEW r \in Nat, q <= r
    PROVE  Capacity(k, r) \in Nat \ {0} /\ Capacity(k, r) <= Capacity(h, q) /\ Capacity(h, q) \in Nat \ {0}
<1> DEFINE Factor(x, need) ==
             IF x.gpu.vendor = "NVIDIA" /\ 10 * x.gpu.memory >= 6 * need THEN 25
             ELSE IF x.gpu.vendor # "None" THEN 14 ELSE 10
<1>1. h.gpu.memory \in Nat /\ k.gpu.memory \in Nat /\ h.cores \in Nat /\ k.cores \in Nat
  BY DEF Hardwares, Gpus
<1>2. Factor(h, q) \in 10 .. 25 /\ Factor(k, r) \in 10 .. 25 /\ Factor(k, r) <= Factor(h, q)
  BY <1>1 DEF Outdoes
<1>3. PICK c \in Nat \ {0} : c = AtLeast(h.cores, 2)
  BY <1>1 DEF AtLeast
<1>4. PICK d \in Nat \ {0} : d = AtLeast(k.cores, 2)
  BY <1>1 DEF AtLeast
<1>5. d <= c
  BY <1>1, <1>3, <1>4 DEF AtLeast, Outdoes
<1>6. Capacity(h, q) = c * Factor(h, q) /\ Capacity(k, r) = d * Factor(k, r)
  BY <1>3, <1>4 DEF Capacity
<1>7. PICK f \in Nat \ {0} : f = Factor(h, q)
  BY <1>2
<1>8. PICK g \in Nat \ {0} : g = Factor(k, r)
  BY <1>2
<1>9. d * g <= c * f /\ d * g \in Nat \ {0} /\ c * f \in Nat \ {0}
  <2>1. d * g >= g /\ c * f >= f
    BY MultipleIsFar
  <2> QED
    BY <1>2, <1>5, <1>7, <1>8, <2>1, ProductGrows
<1> HIDE DEF Factor
<1> QED
  BY <1>6, <1>7, <1>8, <1>9

\* Nor is the time longer: less work, at no lower a rate, and never below half an hour.
LEMMA RatesKeepOrder ==
    ASSUME NEW v \in Nat, NEW w \in Nat, v <= w,
           NEW a \in Nat \ {0}, NEW b \in Nat \ {0}, b <= a
    PROVE  /\ AtLeast(v, 5 * a) \in Nat /\ AtLeast(w, 5 * b) \in Nat
           /\ AtLeast(v, 5 * a) * b <= AtLeast(w, 5 * b) * a
<1>1. PICK x \in Nat : x = AtLeast(v, 5 * a)
  BY DEF AtLeast
<1>2. PICK y \in Nat : y = AtLeast(w, 5 * b)
  BY DEF AtLeast
<1>3. w <= y /\ 5 * b <= y /\ (x = v \/ x = 5 * a)
  BY <1>1, <1>2 DEF AtLeast
<1>4. x * b <= y * a
  <2>1. CASE x = v
    BY <1>3, <2>1, ProductGrows
  <2>2. CASE x = 5 * a
    <3>1. (5 * b) * a <= y * a
      BY <1>3, ProductGrows
    <3>2. x * b = (5 * b) * a
      BY <2>2
    <3> QED
      BY <3>1, <3>2
  <2> QED
    BY <1>3, <2>1, <2>2
<1> QED
  BY <1>1, <1>2, <1>4

\* The same of both ends of the range, which are rounded.
LEMMA HoursKeepOrder ==
    ASSUME NEW h \in Hardwares, NEW k \in Hardwares, Outdoes(h, k),
           NEW s \in Sizes, NEW t \in Sizes, Millions(s) <= Millions(t),
           NEW training \in TrainingSpecs, NEW q \in Nat, NEW r \in Nat, q <= r
    PROVE  LET early == Hours(h, s, training, q)
               late  == Hours(k, t, training, r)
           IN  early[1] <= late[1] /\ early[2] <= late[2]
<1>1. PICK work \in Nat : work = training.epochs * AtLeast(training.batch * training.accumulation, 4)
  <2>1. training.batch * training.accumulation \in Nat /\ training.epochs \in Nat
    BY DEF TrainingSpecs
  <2>2. AtLeast(training.batch * training.accumulation, 4) \in Nat
    BY <2>1 DEF AtLeast
  <2> QED
    BY <2>1, <2>2
<1>2. PICK a \in Nat \ {0} : a = 8 * Capacity(h, q)
  BY CapacityKeepsOrder
<1>3. PICK b \in Nat \ {0} : b = 8 * Capacity(k, r)
  BY CapacityKeepsOrder
<1>4. b <= a
  BY <1>2, <1>3, CapacityKeepsOrder
<1>5. PICK v \in Nat : v = Millions(s) * Difficulty(h, s) * work
  BY SizeFacts, DifficultyKeepsOrder
<1>6. PICK d \in Nat : d = Difficulty(k, t)
  <2>1. Difficulty(k, t) \in {80, 100, 135, 180}
    BY DEF Difficulty
  <2> QED
    BY <2>1
<1>7. PICK w \in Nat : w = Millions(t) * d * work
  BY SizeFacts
<1>8. v <= w
  <2>1. PICK m \in Nat : m = Millions(s)
    BY SizeFacts
  <2>2. PICK n \in Nat : n = Millions(t)
    BY SizeFacts
  <2>3. PICK c \in Nat : c = Difficulty(h, s)
    BY DifficultyKeepsOrder
  <2>4. m <= n /\ c <= d
    BY <1>6, <2>1, <2>2, <2>3, DifficultyKeepsOrder
  <2>5. m * c \in Nat /\ n * d \in Nat /\ m * c <= n * d
    BY <2>4, ProductGrows
  <2>6. (m * c) * work <= (n * d) * work
    BY <2>5, ProductGrows
  <2> QED
    BY <1>5, <1>7, <2>1, <2>2, <2>3, <2>6
<1>9. PICK x \in Nat : x = AtLeast(v, 5 * a)
  BY DEF AtLeast
<1>10. PICK y \in Nat : y = AtLeast(w, 5 * b)
  BY DEF AtLeast
<1>11. x * b <= y * a
  BY <1>4, <1>8, <1>9, <1>10, RatesKeepOrder
<1>12. Round(x, a) <= Round(y, b)
  BY <1>11, RoundKeepsOrder
<1>13. Round(5 * x, 2 * a) <= Round(5 * y, 2 * b)
  <2>1. PICK e \in Nat : e = x * b
    OBVIOUS
  <2>2. PICK f \in Nat : f = y * a
    OBVIOUS
  <2>3. (5 * x) * (2 * b) = 10 * e /\ (5 * y) * (2 * a) = 10 * f
    BY <2>1, <2>2
  <2>4. (5 * x) * (2 * b) <= (5 * y) * (2 * a)
    BY <1>11, <2>1, <2>2, <2>3
  <2>5. PICK x5 \in Nat : x5 = 5 * x
    OBVIOUS
  <2>6. PICK y5 \in Nat : y5 = 5 * y
    OBVIOUS
  <2>7. PICK a2 \in Nat \ {0} : a2 = 2 * a
    OBVIOUS
  <2>8. PICK b2 \in Nat \ {0} : b2 = 2 * b
    OBVIOUS
  <2>9. Round(x5, a2) <= Round(y5, b2)
    BY <2>4, <2>5, <2>6, <2>7, <2>8, RoundKeepsOrder
  <2> QED
    BY <2>5, <2>6, <2>7, <2>8, <2>9
<1>14. Hours(h, s, training, q) = <<Round(x, a), Round(5 * x, 2 * a)>>
  BY <1>1, <1>2, <1>5, <1>9 DEF Hours
<1>15. Hours(k, t, training, r) = <<Round(y, b), Round(5 * y, 2 * b)>>
  BY <1>1, <1>3, <1>6, <1>7, <1>10 DEF Hours
<1> QED
  BY <1>12, <1>13, <1>14, <1>15

\* More of everything, for a model that is no larger: what the engine says is no worse, and
\* it asks for no more (core/sizing/engine.py, evaluate).
LEMMA AdviceKeepsOrder ==
    ASSUME NEW h \in Hardwares, NEW k \in Hardwares, Outdoes(h, k),
           NEW s \in Sizes, NEW t \in Sizes, Millions(s) <= Millions(t),
           NEW training \in TrainingSpecs, NEW a \in Shapes, NEW b \in Shapes, Within(a, b)
    PROVE  LET good == Evaluate(h, s, training, a)
               bad  == Evaluate(k, t, training, b)
           IN  /\ good.required <= bad.required /\ good.status <= bad.status
               /\ good.hours[1] <= bad.hours[1] /\ good.hours[2] <= bad.hours[2]
<1>1. h.gpu.vendor = k.gpu.vendor
  BY DEF Outdoes
<1>2. PICK q \in Nat : q = MemoryRequired(h, s, training, a)
  BY MemoryGrows
<1>3. PICK r \in Nat : r = MemoryRequired(k, t, training, b)
  <2>1. Within(b, b) /\ Millions(t) <= Millions(t)
    BY SizeFacts DEF Within, Shapes
  <2> QED
    BY <2>1, MemoryGrows
<1>4. q <= r
  BY <1>1, <1>2, <1>3, MemoryGrows
<1>5. PICK c \in 1 .. 4 : c = ClassifyMemory(h.available, q)
  BY ClassKeepsOrder DEF Hardwares
<1>6. PICK d \in 1 .. 4 : d = ClassifyMemory(k.available, r)
  BY ClassKeepsOrder DEF Hardwares
<1>7. c <= d
  <2>1. h.available \in Nat /\ k.available \in Nat /\ k.available <= h.available
    BY DEF Hardwares, Outdoes
  <2> QED
    BY <1>4, <1>5, <1>6, <2>1, ClassKeepsOrder
<1>8. PICK x \in Nat : x = Round(h.free, 10)
  <2>1. h.free \in Nat
    BY DEF Hardwares
  <2> QED
    BY <2>1, RoundIsNear
<1>9. PICK y \in Nat : y = Round(k.free, 10)
  <2>1. k.free \in Nat
    BY DEF Hardwares
  <2> QED
    BY <2>1, RoundIsNear
<1>10. y = x \/ (0 < y /\ y <= x)
  <2>1. h.free \in Nat /\ k.free \in Nat /\ k.free <= h.free
    BY DEF Hardwares, Outdoes
  <2>2. y <= x
    BY <1>8, <1>9, <2>1, RoundGrows
  <2> QED
    BY <1>8, <1>9, <2>2 DEF Outdoes
<1>11. PICK m \in Nat : m = DiskRequired(s)
  BY DiskGrows
<1>12. PICK n \in Nat : n = DiskRequired(t)
  <2>1. Millions(t) <= Millions(t)
    BY SizeFacts
  <2> QED
    BY <2>1, DiskGrows
<1>13. m <= n
  BY <1>11, <1>12, DiskGrows
<1>14. ApplyDiskGating(c, m, x) <= ApplyDiskGating(d, n, y)
  BY <1>7, <1>10, <1>13, GateKeepsOrder
<1>15. /\ Evaluate(h, s, training, a).status = ApplyDiskGating(c, m, x)
       /\ Evaluate(k, t, training, b).status = ApplyDiskGating(d, n, y)
  BY <1>2, <1>3, <1>5, <1>6, <1>8, <1>9, <1>11, <1>12 DEF Evaluate
<1>16. /\ Evaluate(h, s, training, a).required = q /\ Evaluate(k, t, training, b).required = r
       /\ Evaluate(h, s, training, a).hours = Hours(h, s, training, q)
       /\ Evaluate(k, t, training, b).hours = Hours(k, t, training, r)
  BY <1>2, <1>3 DEF Evaluate
<1>17. /\ Hours(h, s, training, q)[1] <= Hours(k, t, training, r)[1]
       /\ Hours(h, s, training, q)[2] <= Hours(k, t, training, r)[2]
  BY <1>4, HoursKeepOrder
<1> QED
  BY <1>4, <1>14, <1>15, <1>16, <1>17

-----------------------------------------------------------------------------
(***************************************************************************)
(* What the profiler is told.                                              *)
(***************************************************************************)
\* A finite set of natural numbers has a greatest element, which Max chooses.
LEMMA MaxOfNaturals ==
    ASSUME NEW S \in SUBSET Nat, IsFiniteSet(S), S # {}
    PROVE  Max(S) \in S /\ \A k \in S : k <= Max(S)
<1>1. \E m \in S : \A k \in S : m >= k
  BY GreatestNatural
<1> QED
  BY <1>1 DEF Max

\* Any set of natural numbers that is not empty has a least one, which Min chooses.
LEMMA MinOfNaturals ==
    ASSUME NEW S \in SUBSET Nat, S # {}
    PROVE  Min(S) \in S
<1>1. \E m \in S : \A k \in S : m <= k
  BY LeastNatural
<1> QED
  BY <1>1 DEF Min

\* The adapters that the profiler does not pass over, and what it makes of one.
Listed(adapters) == {i \in DOMAIN adapters : ~adapters[i].basic}

GpuAt(adapters, keys, i) == GpuFromRaw(adapters[i], keys)

\* What the registry says is nothing, or what a key that matches says.
LEMMA RegistrySays ==
    ASSUME NEW keys \in SUBSET Keys, IsFiniteSet(keys), NEW name
    PROVE  /\ RegistryMemory(keys, name) \in Nat
           /\ \/ RegistryMemory(keys, name) = 0
              \/ \E key \in keys : Matches(key, name) /\ RegistryMemory(keys, name) = key.memory
<1> DEFINE matching == {k \in keys : Matches(k, name)}
           said == {key.memory : key \in matching}
<1>1. IsFiniteSet(said)
  <2>1. IsFiniteSet(matching)
    BY FS_Subset
  <2> DEFINE f == [k \in matching |-> k.memory]
  <2>2. said = {f[k] : k \in matching}
    OBVIOUS
  <2>3. IsFiniteSet({f[k] : k \in matching})
    <3> HIDE DEF matching, f
    <3> QED
      BY <2>1, ValuesAreFinite
  <2> HIDE DEF matching, said, f
  <2> QED
    BY <2>2, <2>3
<1>2. IsFiniteSet({0} \cup said)
  <2> HIDE DEF said
  <2> QED
    BY <1>1, FS_Singleton, FS_Union
<1>3. {0} \cup said \in SUBSET Nat
  BY DEF Keys
<1>4. Max({0} \cup said) \in {0} \cup said
  <2> HIDE DEF said
  <2> QED
    BY <1>2, <1>3, MaxOfNaturals
<1>5. RegistryMemory(keys, name) = Max({0} \cup said)
  BY DEF RegistryMemory
<1> QED
  BY <1>3, <1>4, <1>5

\* The memory of an adapter is at least what its field says, and it is the field's or the
\* registry's.
LEMMA GpuFacts ==
    ASSUME NEW adapter \in Adapters, NEW keys \in SUBSET Keys, IsFiniteSet(keys)
    PROVE  LET gpu == GpuFromRaw(adapter, keys) IN
           /\ gpu \in Gpus /\ gpu.vendor = adapter.vendor
           /\ AdapterRam(adapter) <= gpu.memory
           /\ \/ gpu.memory <= adapter.memory
              \/ \E key \in keys : Matches(key, adapter.name) /\ gpu.memory = key.memory
<1>1. PICK x \in Nat : x = AdapterRam(adapter) /\ x <= adapter.memory
  BY DEF AdapterRam, Adapters
<1>2. PICK y \in Nat : y = RegistryMemory(keys, adapter.name)
  BY RegistrySays
<1>3. Max({x, y}) \in {x, y} /\ x <= Max({x, y})
  <2>1. {x, y} \in SUBSET Nat /\ IsFiniteSet({x, y}) /\ {x, y} # {}
    BY PairIsFinite
  <2>2. Max({x, y}) \in {x, y} /\ \A k \in {x, y} : k <= Max({x, y})
    BY <2>1, MaxOfNaturals
  <2> QED
    BY <2>2
<1>4. PICK z \in Nat : z = Max({x, y})
  BY <1>3
<1>5. GpuFromRaw(adapter, keys) = [vendor |-> adapter.vendor, memory |-> z]
  BY <1>1, <1>2, <1>4 DEF GpuFromRaw
<1>6. adapter.vendor \in Vendors /\ adapter.memory \in Nat
  BY DEF Adapters
<1>7. GpuFromRaw(adapter, keys) \in Gpus
  BY <1>5, <1>6 DEF Gpus
<1>8. z = x \/ z = y
  BY <1>3, <1>4
<1>9. z = y => z = 0 \/ \E key \in keys : Matches(key, adapter.name) /\ z = key.memory
  BY <1>2, RegistrySays
<1>10. z <= adapter.memory \/ \E key \in keys : Matches(key, adapter.name) /\ z = key.memory
  BY <1>1, <1>6, <1>8, <1>9
<1> QED
  BY <1>1, <1>3, <1>4, <1>5, <1>7, <1>10

\* Among finitely many adapters one has the most memory.
LEMMA MostMemory ==
    ASSUME NEW S, IsFiniteSet(S), S # {}, NEW f, \A i \in S : f[i] \in Nat
    PROVE  \E b \in S : \A i \in S : f[i] <= f[b]
<1> DEFINE T == {f[i] : i \in S}
<1>1. IsFiniteSet(T)
  BY ValuesAreFinite
<1>2. T \in SUBSET Nat /\ T # {}
  OBVIOUS
<1>3. PICK m \in T : \A k \in T : k <= m
  <2> HIDE DEF T
  <2> QED
    BY <1>1, <1>2, GreatestNatural
<1> QED
  BY <1>3

\* The adapter of a profile is listed, and none is ranked before it.
LEMMA SelectedIsBest ==
    ASSUME NEW adapters \in Seq(Adapters), NEW keys \in SUBSET Keys, IsFiniteSet(keys)
    PROVE  \/ SelectGpu(adapters, keys) = NoGpu
           \/ \E b \in Listed(adapters) :
                /\ SelectGpu(adapters, keys) = GpuAt(adapters, keys, b)
                /\ \A j \in Listed(adapters) :
                     NotBefore(GpuAt(adapters, keys, j), GpuAt(adapters, keys, b))
<1> DEFINE G == Listed(adapters)
           Gpu(i) == GpuAt(adapters, keys, i)
           best == {i \in G : \A j \in G : NotBefore(Gpu(j), Gpu(i))}
           D == {i \in G : Discrete(Gpu(i))}
           f == [i \in G |-> Gpu(i).memory]
<1>1. G \in SUBSET Nat /\ IsFiniteSet(G) /\ D \in SUBSET G /\ IsFiniteSet(D)
  <2>1. DOMAIN adapters = 1 .. Len(adapters) /\ Len(adapters) \in Nat
    OBVIOUS
  <2>2. IsFiniteSet(DOMAIN adapters)
    BY <2>1, FS_Interval
  <2>3. G \in SUBSET DOMAIN adapters /\ D \in SUBSET DOMAIN adapters
    BY DEF Listed
  <2>4. IsFiniteSet(G) /\ IsFiniteSet(D)
    <3> HIDE DEF G, D
    <3> QED
      BY <2>2, <2>3, FS_Subset
  <2> QED
    BY <2>1, <2>3, <2>4
<1>2. \A i \in G : Gpu(i) \in Gpus /\ f[i] = Gpu(i).memory /\ f[i] \in Nat
  <2>1. \A i \in G : adapters[i] \in Adapters
    BY DEF Listed
  <2>2. \A i \in G : Gpu(i) \in Gpus
    BY <2>1, GpuFacts DEF GpuAt
  <2> QED
    BY <2>2 DEF Gpus
<1>3. SelectGpu(adapters, keys) = IF G = {} THEN NoGpu ELSE Gpu(Min(best))
  BY DEF SelectGpu, Listed, GpuAt
<1>4. CASE G = {}
  BY <1>3, <1>4
<1>5. CASE G # {}
  <2>1. best # {}
    <3>1. CASE D = {}
      <4>1. PICK b \in G : \A i \in G : f[i] <= f[b]
        <5> HIDE DEF G, f
        <5> QED
          BY <1>1, <1>2, <1>5, MostMemory
      <4>2. \A j \in G : NotBefore(Gpu(j), Gpu(b))
        BY <3>1, <4>1, <1>2 DEF NotBefore, Discrete
      <4> QED
        BY <4>2
    <3>2. CASE D # {}
      <4>1. PICK b \in D : \A i \in D : f[i] <= f[b]
        <5>1. \A i \in D : f[i] \in Nat
          BY <1>1, <1>2
        <5> HIDE DEF D, f
        <5> QED
          BY <1>1, <3>2, <5>1, MostMemory
      <4>2. \A j \in G : NotBefore(Gpu(j), Gpu(b))
        BY <4>1, <1>2 DEF NotBefore
      <4> QED
        BY <4>2
    <3> QED
      BY <3>1, <3>2
  <2>2. best \in SUBSET Nat
    BY <1>1
  <2>3. Min(best) \in best
    <3> HIDE DEF best
    <3> QED
      BY <2>1, <2>2, MinOfNaturals
  <2>4. PICK b : b = Min(best)
    OBVIOUS
  <2>5. SelectGpu(adapters, keys) = Gpu(b)
    BY <1>3, <1>5, <2>4
  <2> QED
    BY <2>3, <2>4, <2>5
<1> QED
  BY <1>4, <1>5

\* A profile is one, whatever the machine and whether or not the query is answered.
LEMMA ProfileType ==
    ASSUME NEW m \in MachineSpecs, IsFiniteSet(m.keys), NEW answered
    PROVE  Profile(m, answered) \in Hardwares
<1>1. PICK adapters \in Seq(Adapters) :
          adapters = IF m.windows /\ answered THEN m.adapters ELSE << >>
  <2>1. << >> \in Seq(Adapters) /\ m.adapters \in Seq(Adapters)
    BY DEF MachineSpecs
  <2> QED
    BY <2>1
<1>2. m.keys \in SUBSET Keys
  BY DEF MachineSpecs
<1>3. SelectGpu(adapters, m.keys) \in Gpus
  <2>1. NoGpu \in Gpus
    BY DEF NoGpu, Gpus
  <2>2. \A b \in Listed(adapters) : GpuAt(adapters, m.keys, b) \in Gpus
    <3>1. \A b \in Listed(adapters) : adapters[b] \in Adapters
      BY DEF Listed
    <3> QED
      BY <3>1, <1>2, GpuFacts DEF GpuAt
  <2> QED
    BY <2>1, <2>2, <1>2, SelectedIsBest
<1>4. Max({m.cores, 1}) \in Nat \ {0}
  <2>1. PICK c \in Nat : c = m.cores
    BY DEF MachineSpecs
  <2>0. IsFiniteSet({c, 1})
    BY PairIsFinite
  <2>2. {c, 1} \in SUBSET Nat /\ IsFiniteSet({c, 1}) /\ {c, 1} # {}
    BY <2>0
  <2>3. Max({c, 1}) \in {c, 1} /\ \A k \in {c, 1} : k <= Max({c, 1})
    BY <2>2, MaxOfNaturals
  <2>4. Max({c, 1}) \in Nat /\ 1 <= Max({c, 1})
    BY <2>2, <2>3
  <2> QED
    BY <2>1, <2>4
<1>5. m.available \in Nat /\ m.free \in Nat
  BY DEF MachineSpecs
<1> QED
  BY <1>1, <1>3, <1>4, <1>5 DEF Profile, Hardwares
=============================================================================
