------------------------------- MODULE Config -------------------------------
(***************************************************************************)
(* New (src/client.go): the address, the options in the order in which     *)
(* they are given, validation, the client (src/options.go,                 *)
(* src/address.go).  The other modules take a client's configuration as    *)
(* constants and assume of it what is shown here.                          *)
(*                                                                         *)
(* An option is the field it sets and the value; an address is what        *)
(* parseAddress looks at in it.                                            *)
(***************************************************************************)
EXTENDS Integers, Sequences

CONSTANTS
  MaxChunkSize,        \* of package proto
  Defaults,            \* the configuration before any option
  Values,              \* values the options may be given, by field
  MaxOptions           \* bound on the number of options

NoSizeLimit == -1
NilFunc     == 0     \* dial functions are numbered

Timeouts == {"dialTimeout", "ioTimeout"}
Fields   == Timeouts \cup
  {"chunkSize", "maxStreamSize", "maxConcurrentScans", "dialFunc"}

\* What New may hand out: the assumptions on a configuration of ScanStream
\* (chunkSize, maxStreamSize), DeadlineConn and AdminCommand (ioTimeout),
\* ScanSlots (maxConcurrentScans) and Framing (chunkSize).
Usable(cfg) ==
  /\ \A f \in Timeouts : cfg[f] > 0
  /\ cfg["chunkSize"] \in 1 .. MaxChunkSize
  /\ cfg["maxStreamSize"] > 0 \/ cfg["maxStreamSize"] = NoSizeLimit
  /\ cfg["maxConcurrentScans"] >= 0
  /\ cfg["dialFunc"] # NilFunc

ASSUME ConfigAssumption ==
  /\ MaxChunkSize \in Nat \ {0}
  /\ Defaults \in [Fields -> Int] /\ Usable(Defaults)
  /\ DOMAIN Values = Fields /\ \A f \in Fields : Values[f] \subseteq Int
  /\ MaxOptions \in Nat

NilOption == [field |-> "nil", value |-> 0]
Options   == {NilOption} \cup
  {o \in [field : Fields, value : UNION {Values[f] : f \in Fields}] :
     o.value \in Values[o.field]}

\* first is the first byte of a unix path, "" if there is none; splits says
\* whether net.SplitHostPort succeeds.
Addresses ==
  [scheme : {"unix"}, first : {"", "/", "@", "x"}]
    \cup [scheme : {"tcp"}, splits : BOOLEAN, host : BOOLEAN, port : BOOLEAN]
    \cup [scheme : {"none"}]

VARIABLES
  pc,      \* where New is; "client" and "rejected" are its returns
  addr, opts,
  todo,    \* the options not yet applied
  cfg,     \* the configuration so far
  client   \* what New returns: network, configuration, capacity of sem

vars == <<pc, addr, opts, todo, cfg, client>>

NoClient == [network |-> "none", cfg |-> Defaults, sem |-> 0]

-----------------------------------------------------------------------------
AddressOK(a) ==
  \/ a.scheme = "unix" /\ a.first \in {"/", "@"}
  \/ a.scheme = "tcp" /\ a.splits /\ a.host /\ a.port

ParseAddress ==
  /\ pc = "parse"
  /\ pc' = (IF AddressOK(addr) THEN "apply" ELSE "rejected")
  /\ UNCHANGED <<addr, opts, todo, cfg, client>>

\* An option does not replace what an earlier one has set.
ApplyFirstWins ==
  /\ pc = "apply" /\ todo # <<>>
  /\ IF Head(todo) = NilOption
       THEN pc' = "rejected" /\ UNCHANGED <<todo, cfg>>
       ELSE /\ cfg' = (IF cfg[Head(todo).field] = Defaults[Head(todo).field]
                         THEN [cfg EXCEPT ![Head(todo).field] = Head(todo).value] ELSE cfg)
            /\ todo' = Tail(todo) /\ pc' = pc
  /\ UNCHANGED <<addr, opts, client>>

Apply ==
  /\ pc = "apply" /\ todo # <<>>
  /\ IF Head(todo) = NilOption
       THEN pc' = "rejected" /\ UNCHANGED <<todo, cfg>>
       ELSE /\ cfg' = [cfg EXCEPT ![Head(todo).field] = Head(todo).value]
            /\ todo' = Tail(todo) /\ pc' = pc
  /\ UNCHANGED <<addr, opts, client>>

\* NoSizeLimit is taken for the least legal value.
InvalidBelowSentinel(c) ==
  \/ c["dialTimeout"] <= 0 \/ c["ioTimeout"] <= 0
  \/ c["chunkSize"] < 1 \/ c["chunkSize"] > MaxChunkSize
  \/ c["maxStreamSize"] < NoSizeLimit
  \/ c["maxConcurrentScans"] < 0
  \/ c["dialFunc"] = NilFunc

\* The cases of config.validate.
Invalid(c) ==
  \/ c["dialTimeout"] <= 0 \/ c["ioTimeout"] <= 0
  \/ c["chunkSize"] < 1 \/ c["chunkSize"] > MaxChunkSize
  \/ c["maxStreamSize"] # NoSizeLimit /\ c["maxStreamSize"] <= 0
  \/ c["maxConcurrentScans"] < 0
  \/ c["dialFunc"] = NilFunc

\* validate, and the client; sem stays nil without a limit.
Validate ==
  /\ pc = "apply" /\ todo = <<>>
  /\ IF Invalid(cfg)
       THEN pc' = "rejected" /\ client' = client
       ELSE /\ pc' = "client"
            /\ client' = [network |-> addr.scheme, cfg |-> cfg,
                          sem |-> cfg["maxConcurrentScans"]]
  /\ UNCHANGED <<addr, opts, todo, cfg>>

-----------------------------------------------------------------------------
Init ==
  /\ pc = "parse" /\ addr \in Addresses
  /\ opts \in UNION {[1 .. n -> Options] : n \in 0 .. MaxOptions} /\ todo = opts
  /\ cfg = Defaults /\ client = NoClient

Terminated == pc \in {"client", "rejected"} /\ UNCHANGED vars

Next == ParseAddress \/ Apply \/ Validate \/ Terminated

Spec == Init /\ [][Next]_vars

-----------------------------------------------------------------------------
(* Properties.                                                             *)

\* What the caller asked for in a field: the last option on it, or the default.
Asked(f, v) ==
  \/ /\ \A i \in DOMAIN opts : opts[i].field # f
     /\ v = Defaults[f]
  \/ \E i \in DOMAIN opts :
       /\ opts[i].field = f /\ opts[i].value = v
       /\ \A j \in DOMAIN opts : j > i => opts[j].field # f

\* A client has exactly the configuration its caller asked for, usable by
\* every part of the library, and a channel of the right capacity; nothing is
\* refused that would have been usable, and a bad value that a later option
\* replaces is no reason to refuse (New, validate).
NewDecides ==
  /\ pc = "client" =>
       /\ AddressOK(addr) /\ client.network \in {"unix", "tcp"}
       /\ Usable(client.cfg) /\ client.sem = client.cfg["maxConcurrentScans"]
       /\ \A f \in Fields : Asked(f, client.cfg[f])
  /\ pc = "rejected" =>
       \/ ~AddressOK(addr)
       \/ \E i \in DOMAIN opts : opts[i] = NilOption
       \/ ~Usable(cfg) /\ \A f \in Fields : Asked(f, cfg[f])

=============================================================================
