---------------------------- MODULE ConfigProofs ----------------------------
(***************************************************************************)
(* New decides right, for every address, every sequence of options and all *)
(* bounds and defaults.                                                    *)
(***************************************************************************)
EXTENDS Config, TLAPS

-----------------------------------------------------------------------------
(* The invariant.                                                          *)

\* How many options have been applied.
Applied == Len(opts) - Len(todo)

\* What the first n options ask for in a field.
AskedBy(n, f, v) ==
  \/ /\ \A i \in 1 .. n : opts[i].field # f
     /\ v = Defaults[f]
  \/ \E i \in 1 .. n :
       /\ opts[i].field = f /\ opts[i].value = v
       /\ \A j \in 1 .. n : j > i => opts[j].field # f

TypeInv ==
  /\ pc \in {"parse", "apply", "client", "rejected"}
  /\ addr \in Addresses
  /\ opts \in Seq(Options) /\ todo \in Seq(Options)
  /\ cfg \in [Fields -> Int]

\* todo is what is left of opts, and cfg is what the others came to.
ApplyInv ==
  /\ Len(todo) <= Len(opts)
  /\ \A i \in 1 .. Len(todo) : todo[i] = opts[Applied + i]
  /\ \A f \in Fields : AskedBy(Applied, f, cfg[f])
  /\ pc = "parse" => todo = opts
  /\ pc = "apply" => AddressOK(addr)

IInv == TypeInv /\ ApplyInv /\ NewDecides

-----------------------------------------------------------------------------
(* Facts about configurations and options.                                 *)

\* config.validate turns down exactly what the other modules cannot use.
LEMMA ValidIsUsable ==
  ASSUME NEW c \in [Fields -> Int]
  PROVE  Invalid(c) <=> ~Usable(c)
  <1>1. MaxChunkSize \in Nat
    BY ConfigAssumption DEF ConfigAssumption
  <1>2. \A f \in Fields : c[f] \in Int
    OBVIOUS
  <1>3. /\ "dialTimeout" \in Fields /\ "ioTimeout" \in Fields /\ "chunkSize" \in Fields
        /\ "maxStreamSize" \in Fields /\ "maxConcurrentScans" \in Fields
        /\ "dialFunc" \in Fields
    BY DEF Fields, Timeouts
  <1>4. (\A f \in Timeouts : c[f] > 0) <=> (c["dialTimeout"] > 0 /\ c["ioTimeout"] > 0)
    BY DEF Timeouts
  <1> QED
    BY <1>1, <1>2, <1>3, <1>4 DEF Invalid, Usable, NoSizeLimit

\* An option is the nil option, or sets a field to an integer.
LEMMA OptionType ==
  ASSUME NEW o \in Options, o # NilOption
  PROVE  o.field \in Fields /\ o.value \in Int
  <1>1. /\ o \in [field : Fields, value : UNION {Values[f] : f \in Fields}]
        /\ o.value \in Values[o.field]
    BY DEF Options
  <1>2. o.field \in Fields
    BY <1>1
  <1>3. Values[o.field] \subseteq Int
    BY <1>2, ConfigAssumption DEF ConfigAssumption
  <1> QED
    BY <1>1, <1>2, <1>3

\* One more option decides its own field and leaves the others as they were.
LEMMA OneMoreOption ==
  ASSUME NEW n \in Nat, NEW c, NEW f \in Fields,
         opts[n + 1].field \in Fields,
         AskedBy(n, f, c)
  PROVE  /\ opts[n + 1].field = f => AskedBy(n + 1, f, opts[n + 1].value)
         /\ opts[n + 1].field # f => AskedBy(n + 1, f, c)
  <1>1. \A i \in 1 .. n + 1 : i \in 1 .. n \/ i = n + 1
    OBVIOUS
  <1>2. CASE opts[n + 1].field = f
    <2>1. n + 1 \in 1 .. n + 1 /\ \A j \in 1 .. n + 1 : ~(j > n + 1)
      OBVIOUS
    <2> QED
      BY <1>2, <2>1 DEF AskedBy
  <1>3. CASE opts[n + 1].field # f
    <2>1. CASE (\A i \in 1 .. n : opts[i].field # f) /\ c = Defaults[f]
      BY <1>1, <1>3, <2>1 DEF AskedBy
    <2>2. CASE \E i \in 1 .. n :
                 /\ opts[i].field = f /\ opts[i].value = c
                 /\ \A j \in 1 .. n : j > i => opts[j].field # f
      <3>1. PICK i \in 1 .. n :
                 /\ opts[i].field = f /\ opts[i].value = c
                 /\ \A j \in 1 .. n : j > i => opts[j].field # f
        BY <2>2
      <3>2. i \in 1 .. n + 1 /\ \A j \in 1 .. n + 1 : j > i => opts[j].field # f
        BY <1>1, <1>3, <3>1
      <3> QED
        BY <1>3, <3>1, <3>2 DEF AskedBy
    <2> QED
      BY <2>1, <2>2 DEF AskedBy
  <1> QED
    BY <1>2, <1>3

\* With all options applied, that is what the caller asked for.
LEMMA AllApplied ==
  ASSUME opts \in Seq(Options), NEW f, NEW v
  PROVE  AskedBy(Len(opts), f, v) => Asked(f, v)
  <1>1. DOMAIN opts = 1 .. Len(opts)
    OBVIOUS
  <1> QED
    BY <1>1 DEF AskedBy, Asked

-----------------------------------------------------------------------------
(* The invariant holds.                                                    *)

LEMMA InitEstablishes == Init => IInv
  <1> SUFFICES ASSUME Init PROVE IInv
    OBVIOUS
  <1>1. opts \in Seq(Options) /\ todo = opts
    BY DEF Init
  <1>2. TypeInv
    BY <1>1, ConfigAssumption DEF Init, TypeInv, ConfigAssumption
  <1>3. Applied = 0
    BY <1>1 DEF Applied
  <1>4. ApplyInv
    BY <1>1, <1>3 DEF Init, ApplyInv, AskedBy
  <1>5. NewDecides
    BY DEF Init, NewDecides
  <1> QED
    BY <1>2, <1>4, <1>5 DEF IInv

LEMMA ParseStep == IInv /\ ParseAddress => IInv'
  <1> SUFFICES ASSUME IInv, ParseAddress PROVE IInv'
    OBVIOUS
  <1>1. UNCHANGED <<addr, opts, todo, cfg, client>> /\ pc = "parse"
    BY DEF ParseAddress
  <1>2. pc' \in {"apply", "rejected"} /\ (pc' = "apply" <=> AddressOK(addr))
    BY DEF ParseAddress
  <1>3. TypeInv'
    BY <1>1, <1>2 DEF IInv, TypeInv
  <1>4. ApplyInv'
    BY <1>1, <1>2 DEF IInv, ApplyInv, Applied, AskedBy, AddressOK
  <1>5. NewDecides'
    BY <1>1, <1>2 DEF NewDecides, AddressOK
  <1> QED
    BY <1>3, <1>4, <1>5 DEF IInv

LEMMA ApplyStep == IInv /\ Apply => IInv'
  <1> SUFFICES ASSUME IInv, Apply PROVE IInv'
    OBVIOUS
  <1> DEFINE n == Applied
             o == Head(todo)
  <1>1. /\ UNCHANGED <<addr, opts, client>> /\ pc = "apply" /\ todo # <<>>
        /\ opts \in Seq(Options) /\ todo \in Seq(Options) /\ cfg \in [Fields -> Int]
        /\ Len(todo) \in Nat /\ Len(todo) > 0 /\ Len(opts) \in Nat /\ Len(todo) <= Len(opts)
    BY DEF IInv, TypeInv, ApplyInv, Apply
  <1>2. n \in Nat /\ n + 1 \in DOMAIN opts /\ o = opts[n + 1] /\ o \in Options
    BY <1>1 DEF IInv, ApplyInv, Applied
  <1>3. CASE o = NilOption
    <2>1. pc' = "rejected" /\ UNCHANGED <<todo, cfg>>
      BY <1>3 DEF Apply
    <2>2. TypeInv'
      BY <1>1, <2>1 DEF IInv, TypeInv
    <2>3. ApplyInv'
      BY <1>1, <2>1 DEF IInv, ApplyInv, Applied, AskedBy, AddressOK
    <2>4. NewDecides'
      BY <1>1, <1>2, <1>3, <2>1 DEF NewDecides
    <2> QED
      BY <2>2, <2>3, <2>4 DEF IInv
  <1>4. CASE o # NilOption
    <2>1. /\ cfg' = [cfg EXCEPT ![o.field] = o.value]
          /\ todo' = Tail(todo) /\ pc' = "apply"
      BY <1>1, <1>4 DEF Apply
    <2>2. o.field \in Fields /\ o.value \in Int
      BY <1>2, <1>4, OptionType
    <2>3. TypeInv'
      BY <1>1, <2>1, <2>2 DEF IInv, TypeInv
    <2>4. Len(todo') = Len(todo) - 1 /\ Applied' = n + 1
      BY <1>1, <2>1 DEF Applied
    <2>5. \A i \in 1 .. Len(todo') : todo'[i] = opts'[Applied' + i]
      <3> SUFFICES ASSUME NEW i \in 1 .. Len(todo') PROVE todo'[i] = opts'[Applied' + i]
        OBVIOUS
      <3>1. i + 1 \in 1 .. Len(todo) /\ todo'[i] = todo[i + 1]
        BY <1>1, <2>1, <2>4
      <3>2. todo[i + 1] = opts[n + (i + 1)]
        BY <3>1 DEF IInv, ApplyInv
      <3>3. n + (i + 1) = Applied' + i
        BY <1>2, <2>4, <3>1
      <3> QED
        BY <1>1, <3>1, <3>2, <3>3
    <2>6. \A f \in Fields : AskedBy(Applied, f, cfg[f])'
      <3> SUFFICES ASSUME NEW f \in Fields PROVE AskedBy(Applied, f, cfg[f])'
        OBVIOUS
      <3>1. AskedBy(n, f, cfg[f])
        BY DEF IInv, ApplyInv
      <3>2. /\ opts[n + 1].field = f => AskedBy(n + 1, f, opts[n + 1].value)
            /\ opts[n + 1].field # f => AskedBy(n + 1, f, cfg[f])
        BY <1>2, <2>2, <3>1, OneMoreOption
      <3>3. cfg'[f] = IF o.field = f THEN o.value ELSE cfg[f]
        BY <1>1, <2>1, <2>2
      <3>4. AskedBy(n + 1, f, cfg'[f])
        BY <1>2, <3>2, <3>3
      <3> QED
        BY <1>1, <2>4, <3>4 DEF AskedBy
    <2>7. ApplyInv'
      BY <1>1, <2>1, <2>4, <2>5, <2>6 DEF IInv, ApplyInv, AddressOK
    <2>8. NewDecides'
      BY <2>1 DEF NewDecides
    <2> QED
      BY <2>3, <2>7, <2>8 DEF IInv
  <1> QED
    BY <1>3, <1>4

LEMMA ValidateStep == IInv /\ Validate => IInv'
  <1> SUFFICES ASSUME IInv, Validate PROVE IInv'
    OBVIOUS
  <1>1. /\ UNCHANGED <<addr, opts, todo, cfg>> /\ pc = "apply" /\ todo = <<>>
        /\ opts \in Seq(Options) /\ cfg \in [Fields -> Int]
    BY DEF IInv, TypeInv, Validate
  <1>2. pc' \in {"client", "rejected"} /\ (pc' = "rejected" <=> Invalid(cfg))
    BY DEF Validate
  <1>3. TypeInv'
    BY <1>1, <1>2 DEF IInv, TypeInv
  <1>4. ApplyInv'
    BY <1>1, <1>2 DEF IInv, ApplyInv, Applied, AskedBy, AddressOK
  <1>5. Applied = Len(opts)
    BY <1>1 DEF Applied
  <1>6. \A f \in Fields : Asked(f, cfg[f])
    BY <1>1, <1>5, AllApplied DEF IInv, ApplyInv
  <1>7. (\A f \in Fields : Asked(f, cfg[f]))'
    BY <1>1, <1>6 DEF Asked
  <1>8. CASE Invalid(cfg)
    <2>1. ~Usable(cfg)
      BY <1>1, <1>8, ValidIsUsable
    <2> QED
      BY <1>1, <1>2, <1>3, <1>4, <1>7, <1>8, <2>1 DEF IInv, NewDecides, Usable
  <1>9. CASE ~Invalid(cfg)
    <2>1. Usable(cfg)
      BY <1>1, <1>9, ValidIsUsable
    <2>2. /\ pc' = "client"
          /\ client' = [network |-> addr.scheme, cfg |-> cfg,
                        sem |-> cfg["maxConcurrentScans"]]
      BY <1>9 DEF Validate
    <2>3. client'.network = addr.scheme /\ client'.cfg = cfg
          /\ client'.sem = cfg["maxConcurrentScans"]
      BY <2>2
    <2>4. AddressOK(addr) /\ addr.scheme \in {"unix", "tcp"}
      BY <1>1 DEF IInv, ApplyInv, AddressOK
    <2>5. (\A f \in Fields : Asked(f, client.cfg[f]))'
      BY <1>1, <1>7, <2>3 DEF Asked
    <2> QED
      BY <1>1, <1>3, <1>4, <2>1, <2>2, <2>3, <2>4, <2>5
      DEF IInv, NewDecides, Usable, AddressOK
  <1> QED
    BY <1>8, <1>9

\* For all bounds, defaults and sequences of options, New returns a client
\* exactly for a usable address and configuration, with what the last option
\* on each field says (New, validate).
THEOREM NewIsRight == Spec => []NewDecides
  <1>1. IInv /\ [Next]_vars => IInv'
    <2> SUFFICES ASSUME IInv, [Next]_vars PROVE IInv'
      OBVIOUS
    <2>1. CASE UNCHANGED vars
      BY <2>1 DEF IInv, TypeInv, ApplyInv, NewDecides, Applied, AskedBy, Asked,
                  AddressOK, Usable, vars
    <2> QED
      BY <2>1, ParseStep, ApplyStep, ValidateStep DEF Next, Terminated
  <1>2. IInv => NewDecides
    BY DEF IInv
  <1> QED
    BY <1>1, <1>2, InitEstablishes, PTL DEF Spec

=============================================================================
