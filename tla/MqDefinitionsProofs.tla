------------------------ MODULE MqDefinitionsProofs -------------------------
(***************************************************************************)
(* The attribute macro: what it makes of a list of arguments, for every    *)
(* list and every choice of literals and prototypes.                       *)
(***************************************************************************)
EXTENDS MqDefinitions, SequenceTheorems, TLAPS

Values == UNION {Literals(o) : o \in Words}

Arguments == [opt : Words, value : Values]

(* The options o are what the arguments as say, no more and no less.       *)
Faithful(as, o) ==
    /\ \A m, n \in 1..Len(as) : m # n /\ as[m].opt \in Options => as[m].opt # as[n].opt
    /\ \A n \in 1..Len(as) : as[n].opt \in Options =>
          as[n].value # Null /\ o[as[n].opt] = as[n].value
    /\ \A w \in Options : o[w] # Null => \E n \in 1..Len(as) : as[n].opt = w

(* p is o with the argument arg set in it, if it is one of the options.    *)
SetIn(o, arg, p) ==
    /\ \A x \in Options : x # arg.opt => p[x] = o[x]
    /\ arg.opt \in Options => /\ o[arg.opt] = Null
                              /\ arg.value # Null /\ p[arg.opt] = arg.value

(* Options stay faithful with one more argument: one that sets an option   *)
(* that was not given yet, or that is none of the options.                 *)
LEMMA OneMore ==
    ASSUME NEW as \in Seq(Arguments), NEW arg \in Arguments, NEW o, NEW p,
           Faithful(as, o), SetIn(o, arg, p)
    PROVE  Faithful(Append(as, arg), p)
<1> DEFINE bs == Append(as, arg)
           k == Len(as)
<1>1. k \in Nat /\ Len(as) = k /\ Len(bs) = k + 1 /\ bs[k + 1] = arg
  <2>1. k \in Nat
    BY LenProperties
  <2>2. Len(bs) = k + 1
    BY AppendProperties
  <2>3. bs[k + 1] = arg
    BY AppendProperties
  <2>4. QED
    BY <2>1, <2>2, <2>3
<1>2. \A n \in 1..k : bs[n] = as[n]
  BY AppendProperties
<1> HIDE DEF bs, k
<1>3. /\ \A x \in Options : x # arg.opt => p[x] = o[x]
      /\ arg.opt \in Options => /\ o[arg.opt] = Null
                                /\ arg.value # Null /\ p[arg.opt] = arg.value
  BY DEF SetIn
<1>4. \A n \in 1..(k + 1) : n \in 1..k \/ n = k + 1
  BY <1>1
<1>5. ASSUME NEW n \in 1..k, bs[n].opt \in Options
      PROVE  /\ bs[n].opt # arg.opt
             /\ bs[n].value # Null /\ o[bs[n].opt] = bs[n].value
  <2>1. bs[n] = as[n] /\ n \in 1..Len(as)
    BY <1>1, <1>2
  <2>2. as[n].value # Null /\ o[as[n].opt] = as[n].value
    BY <1>5, <2>1 DEF Faithful
  <2>3. QED
    BY <1>5, <1>3, <2>1, <2>2
<1>6. ASSUME NEW m \in 1..(k + 1), NEW n \in 1..(k + 1), m # n, bs[m].opt \in Options
      PROVE  bs[m].opt # bs[n].opt
  <2>1. CASE m = k + 1
    <3>1. n \in 1..k /\ bs[m] = arg
      BY <1>1, <1>4, <1>6, <2>1
    <3>2. QED
      BY <1>5, <1>6, <1>3, <3>1
  <2>2. CASE m \in 1..k /\ n = k + 1
    <3>1. bs[n] = arg
      BY <1>1, <2>2
    <3>2. QED
      BY <1>5, <1>6, <1>3, <2>2, <3>1
  <2>3. CASE m \in 1..k /\ n \in 1..k
    <3>1. bs[m] = as[m] /\ bs[n] = as[n] /\ m \in 1..Len(as) /\ n \in 1..Len(as)
      BY <1>1, <1>2, <2>3
    <3>2. as[m].opt \in Options => as[m].opt # as[n].opt
      BY <1>6, <3>1 DEF Faithful
    <3>3. QED
      BY <1>6, <3>1, <3>2
  <2>4. QED
    BY <1>4, <2>1, <2>2, <2>3
<1>7. ASSUME NEW n \in 1..(k + 1), bs[n].opt \in Options
      PROVE  bs[n].value # Null /\ p[bs[n].opt] = bs[n].value
  <2>1. CASE n = k + 1
    BY <1>1, <1>7, <1>3, <2>1
  <2>2. CASE n \in 1..k
    BY <1>5, <1>7, <1>3, <2>2
  <2>3. QED
    BY <1>4, <2>1, <2>2
<1>8. ASSUME NEW x \in Options, p[x] # Null
      PROVE  \E n \in 1..(k + 1) : bs[n].opt = x
  <2>1. CASE x = arg.opt
    <3>1. (k + 1) \in 1..(k + 1)
      BY <1>1
    <3>2. QED
      BY <1>1, <2>1, <3>1
  <2>2. CASE x # arg.opt
    <3>1. \E n \in 1..k : as[n].opt = x
      BY <1>1, <1>8, <1>3, <2>2 DEF Faithful
    <3>2. \A n \in 1..k : n \in 1..(k + 1)
      BY <1>1
    <3>3. QED
      BY <1>2, <3>1, <3>2
  <2>3. QED
    BY <2>1, <2>2
<1>9. Faithful(bs, p)
  BY <1>1, <1>6, <1>7, <1>8 DEF Faithful
<1>10. QED
  BY <1>9 DEF bs

USE DefinitionsAssumption DEF DefinitionsAssumption

OptionsOK(o) ==
    /\ o \in [Options -> Values \cup {Null}]
    /\ \A w \in Options : o[w] # Null => o[w] \in Fits[w]

DefInv ==
    /\ args \in [Job -> Seq(Arguments)]
    /\ options = [j \in Job |-> options[j]]
    /\ errors \in [Job -> Nat]
    /\ named \in [Job -> NamedJob \cup {Null}]
    /\ \A j \in Job : /\ OptionsOK(options[j])
                      /\ errors[j] = 0 => Faithful(args[j], options[j])

(* No arguments, no options.                                               *)
LEMMA NoOptionsOK == OptionsOK(NoOptions) /\ Faithful(<<>>, NoOptions)
BY DEF OptionsOK, Faithful, NoOptions

(* Nothing is defined at first.                                            *)
LEMMA DefInitInv == DefInit => DefInv
BY NoOptionsOK DEF DefInit, DefInv

(* What fits an option is a value, and an option a word.                   *)
LEMMA FitsValues == \A w \in Options : Fits[w] \subseteq Values /\ w \in Words
BY DEF Values, Literals, Words

(* One more argument keeps the options faithful, or is an error.           *)
LEMMA ArgumentStep ==
    ASSUME DefInv, NEW j \in Job, NEW w \in Words, NEW v \in Literals(w),
           interpret_job_arg(j, [opt |-> w, value |-> v])
    PROVE  DefInv'
<1> DEFINE arg == [opt |-> w, value |-> v]
           as == args[j]
           o == options[j]
<1>1. arg \in Arguments /\ arg.opt = w /\ arg.value = v
  BY DEF Arguments, Values
<1>2. as \in Seq(Arguments) /\ OptionsOK(o) /\ errors[j] \in Nat
      /\ (errors[j] = 0 => Faithful(as, o))
  BY DEF DefInv
<1>3. Append(as, arg) \in Seq(Arguments)
  BY <1>1, <1>2, AppendProperties
<1>4. args' = [args EXCEPT ![j] = Append(as, arg)] /\ named' = named
  BY DEF interpret_job_arg
<1>5. CASE Accepts(o, arg)
  <2> DEFINE p == [o EXCEPT ![w] = v]
  <2>1. w \in Options /\ v \in Fits[w] /\ o[w] = Null
    BY <1>1, <1>5 DEF Accepts
  <2>2. options' = [options EXCEPT ![j] = p] /\ errors' = errors
    BY <1>1, <1>5 DEF interpret_job_arg
  <2>3. v # Null /\ v \in Values
    BY <2>1, FitsValues
  <2>4. p[w] = v /\ (\A x \in Options : x # w => p[x] = o[x])
    BY <1>2, <2>1 DEF OptionsOK
  <2>5. OptionsOK(p)
    BY <1>2, <2>1, <2>3, <2>4 DEF OptionsOK
  <2>6. SetIn(o, arg, p)
    <3> HIDE DEF arg, p, o
    <3>1. QED
      BY <1>1, <2>1, <2>3, <2>4 DEF SetIn
  <2>7. Faithful(as, o) => Faithful(Append(as, arg), p)
    <3> HIDE DefinitionsAssumption DEF arg, p, as, o
    <3>1. as \in Seq(Arguments) /\ arg \in Arguments
      BY <1>1, <1>2
    <3>2. QED
      BY <2>6, <3>1, OneMore
  <2>8. QED
    BY <1>2, <1>3, <1>4, <2>2, <2>5, <2>7 DEF DefInv
<1>6. CASE ~ Accepts(o, arg)
  <2>1. options' = options
    BY <1>6 DEF interpret_job_arg, DefInv
  <2>2. errors' = [errors EXCEPT ![j] = errors[j] + 1] \/ (errors' = errors /\ w = "path")
    BY <1>1, <1>6 DEF interpret_job_arg
  <2>3. w = "path" => w \notin Options
    BY DEF Options, Fits
  <2>4. w \notin Options /\ Faithful(as, o) => Faithful(Append(as, arg), o)
    <3> HIDE DefinitionsAssumption DEF arg, as, o
    <3>1. as \in Seq(Arguments) /\ arg \in Arguments
      BY <1>1, <1>2
    <3>2. w \notin Options => SetIn(o, arg, o)
      BY <1>1 DEF SetIn
    <3>3. QED
      BY <3>1, <3>2, OneMore
  <2>5. args' \in [Job -> Seq(Arguments)] /\ errors' \in [Job -> Nat]
    <3>1. args' \in [Job -> Seq(Arguments)]
      BY <1>3, <1>4 DEF DefInv
    <3>2. errors \in [Job -> Nat]
      BY DEF DefInv
    <3>3. errors' \in [Job -> Nat]
      BY <1>2, <2>2, <3>2
    <3>4. QED
      BY <3>1, <3>3
  <2>6. ASSUME NEW i \in Job
        PROVE  OptionsOK(options'[i]) /\ (errors'[i] = 0 => Faithful(args'[i], options'[i]))
    <3>1. CASE i # j
      <4>1. args'[i] = args[i] /\ errors'[i] = errors[i]
        BY <1>4, <2>2, <3>1 DEF DefInv
      <4>2. QED
        BY <2>1, <4>1 DEF DefInv
    <3>2. CASE i = j
      <4>1. args'[j] = Append(as, arg)
        BY <1>4 DEF DefInv
      <4>2. errors'[j] = 0 => w \notin Options /\ errors[j] = 0
        BY <1>2, <2>2, <2>3 DEF DefInv
      <4>3. QED
        BY <1>2, <2>1, <2>4, <3>2, <4>1, <4>2
    <3>3. QED
      BY <3>1, <3>2
  <2>7. QED
    BY <1>4, <2>1, <2>5, <2>6 DEF DefInv
<1>7. QED
  BY <1>5, <1>6

-----------------------------------------------------------------------------
(* What the documentation says of faithful options.                        *)
LEMMA GivenIs ==
    ASSUME NEW as \in Seq(Arguments), NEW o, Faithful(as, o),
           NEW w \in Options, NEW d
    PROVE  GivenOr(as, w, d) = IF o[w] = Null THEN d ELSE o[w]
<1>1. CASE o[w] = Null
  <2>1. \A n \in 1..Len(as) : as[n].opt # w
    BY <1>1 DEF Faithful
  <2>2. {n \in 1..Len(as) : as[n].opt = w} = {}
    BY <2>1
  <2>3. Given(as, w) = {}
    BY <2>2 DEF Given
  <2>4. QED
    BY <1>1, <2>3 DEF GivenOr
<1>2. CASE o[w] # Null
  <2>1. PICK n \in 1..Len(as) : as[n].opt = w
    BY <1>2 DEF Faithful
  <2>2. \A i \in 1..Len(as) : as[i].opt = w => as[i].value = o[w]
    BY DEF Faithful
  <2>3. o[w] \in Given(as, w) /\ \A v \in Given(as, w) : v = o[w]
    BY <2>1, <2>2 DEF Given
  <2>4. QED
    BY <1>2, <2>3 DEF GivenOr
<1>3. QED
  BY <1>1, <1>2

(* The names of the options are distinct.                                  *)
LEMMA OptionNames ==
    /\ Options = {"name", "channel_name", "retries", "backoff_secs", "ordered", "proto"}
    /\ Fits["name"] = Names /\ Fits["channel_name"] = ChannelNames
    /\ Fits["retries"] = Retries /\ Fits["backoff_secs"] = Secs
    /\ Fits["ordered"] = BOOLEAN /\ Fits["proto"] = Protos
BY DEF Options, Fits

(* A setter, and a prototype, leave a builder a builder.                   *)
LEMMA SetBuild ==
    ASSUME NEW b \in BuildType, NEW v
    PROVE  /\ v \in ChannelNames \cup {Null} => Set(b, "channel_name", v) \in BuildType
           /\ v \in Retries \cup {Null} => Set(b, "retries", v) \in BuildType
           /\ v \in Secs \cup {Null} => Set(b, "retry_backoff", v) \in BuildType
           /\ v \in BOOLEAN \cup {Null} => Set(b, "ordered", v) \in BuildType
BY DEF Set, BuildType

(* A prototype overrides the defaults, field by field.                     *)
LEMMA ProtoBuild ==
    ASSUME NEW p \in Protos \cup {Null}
    PROVE  /\ SetProto(Defaults, p) \in BuildType
           /\ \A f \in BuilderField :
                 SetProto(Defaults, p)[f] =
                    IF p # Null /\ f \in DOMAIN p THEN p[f] ELSE Defaults[f]
<1>1. DOMAIN Defaults = BuilderField
  BY DEF Defaults, BuilderField
<1>2. Defaults \in BuildType
  BY DEF Defaults, BuildType
<1>3. CASE p = Null
  BY <1>1, <1>2, <1>3 DEF SetProto
<1>4. CASE p # Null
  <2>1. SetProto(Defaults, p) = [f \in BuilderField |-> IF f \in DOMAIN p THEN p[f] ELSE Defaults[f]]
    BY <1>1, <1>4 DEF SetProto
  <2>2. p \in Protos
    BY <1>4
  <2>3. QED
    BY <1>4, <2>1, <2>2
<1>5. QED
  BY <1>3, <1>4

(* The chain is what the documentation declares, field by field.           *)
LEMMA ChainIs ==
    ASSUME NEW as \in Seq(Arguments), NEW o,
           OptionsOK(o), Faithful(as, o)
    PROVE  /\ Chain(o, Defaults) \in BuildType
           /\ Chain(o, Defaults) =
               [channel_name  |-> Declared(as, "channel_name", "channel_name"),
                retries       |-> Declared(as, "retries", "retries"),
                retry_backoff |-> Declared(as, "backoff_secs", "retry_backoff"),
                ordered       |-> Declared(as, "ordered", "ordered")]
<1> DEFINE b1 == SetProto(Defaults, o.proto)
           b2 == Set(b1, "channel_name", o.channel_name)
           b3 == Set(b2, "retries", o.retries)
           b4 == Set(b3, "retry_backoff", o.backoff_secs)
           b5 == Set(b4, "ordered", o.ordered)
<1>1. /\ o.proto \in Protos \cup {Null} /\ o.channel_name \in ChannelNames \cup {Null}
      /\ o.retries \in Retries \cup {Null} /\ o.backoff_secs \in Secs \cup {Null}
      /\ o.ordered \in BOOLEAN \cup {Null}
  BY OptionNames DEF OptionsOK
<1>2. b1 \in BuildType
  BY <1>1, ProtoBuild
<1>3. b2 \in BuildType
  BY <1>1, <1>2, SetBuild
<1>4. b3 \in BuildType
  BY <1>1, <1>3, SetBuild
<1>5. b4 \in BuildType
  BY <1>1, <1>4, SetBuild
<1>6. b5 \in BuildType
  BY <1>1, <1>5, SetBuild
<1>7. Chain(o, Defaults) = b5
  BY DEF Chain
<1>8. GivenOr(as, "proto", Null) = o.proto
  BY GivenIs, OptionNames
<1>9. ASSUME NEW f \in BuilderField, NEW w \in Options
      PROVE  Declared(as, w, f) = IF o[w] = Null THEN b1[f] ELSE o[w]
  <2> DEFINE d == IF o.proto # Null /\ f \in DOMAIN o.proto THEN o.proto[f] ELSE Defaults[f]
  <2>1. Declared(as, w, f) = GivenOr(as, w, d)
    BY <1>8 DEF Declared
  <2>2. b1[f] = d
    BY <1>1, ProtoBuild
  <2>3. GivenOr(as, w, d) = IF o[w] = Null THEN d ELSE o[w]
    BY GivenIs
  <2>4. QED
    BY <2>1, <2>2, <2>3
<1>10. b5 = [channel_name  |-> IF o.channel_name = Null THEN b1.channel_name ELSE o.channel_name,
             retries       |-> IF o.retries = Null THEN b1.retries ELSE o.retries,
             retry_backoff |-> IF o.backoff_secs = Null THEN b1.retry_backoff ELSE o.backoff_secs,
             ordered       |-> IF o.ordered = Null THEN b1.ordered ELSE o.ordered]
  BY <1>2 DEF Set, BuildType
<1>11. QED
  BY <1>6, <1>7, <1>9, <1>10, OptionNames DEF BuilderField

-----------------------------------------------------------------------------
(* What the documentation says of a function that becomes a named job.     *)
DeclaredStep ==
    \A j \in Job : named[j] = Null /\ named'[j] # Null =>
        LET as == args[j] IN
        /\ \A m, n \in 1..Len(as) : m # n /\ as[m].opt \in Options => as[m].opt # as[n].opt
        /\ named'[j].name = GivenOr(as, "name", PathOf[j])
        /\ named'[j].build =
             [channel_name  |-> Declared(as, "channel_name", "channel_name"),
              retries       |-> Declared(as, "retries", "retries"),
              retry_backoff |-> Declared(as, "backoff_secs", "retry_backoff"),
              ordered       |-> Declared(as, "ordered", "ordered")]

(* An attribute without errors expands to a job as declared.               *)
LEMMA ExpandStep ==
    ASSUME DefInv, NEW j \in Job, Expand(j)
    PROVE  DefInv' /\ DeclaredStep
<1> DEFINE o == options[j]
           nj == [name |-> NameOf(j, o), build |-> Chain(o, Defaults)]
<1>1. OptionsOK(o) /\ Faithful(args[j], o) /\ args[j] \in Seq(Arguments)
  BY DEF DefInv, Expand
<1>2. nj.name = GivenOr(args[j], "name", PathOf[j]) /\ nj.name \in Names \cup Path
  <2>1. "name" \in Options /\ o.name \in Names \cup {Null}
    BY <1>1, OptionNames DEF OptionsOK
  <2>2. GivenOr(args[j], "name", PathOf[j]) = IF o.name = Null THEN PathOf[j] ELSE o.name
    BY <1>1, <2>1, GivenIs
  <2>3. QED
    BY <2>1, <2>2 DEF NameOf
<1>3. nj \in NamedJob
  BY <1>1, <1>2, ChainIs DEF NamedJob
<1>4. named' = [named EXCEPT ![j] = nj] /\ args' = [args EXCEPT ![j] = <<>>]
      /\ options' = [options EXCEPT ![j] = NoOptions] /\ errors' = errors
  BY DEF Expand
<1>5. named' \in [Job -> NamedJob \cup {Null}]
  BY <1>3, <1>4 DEF DefInv
<1>6. args' \in [Job -> Seq(Arguments)]
  <2>1. <<>> \in Seq(Arguments)
    OBVIOUS
  <2>2. QED
    BY <1>4, <2>1 DEF DefInv
<1>7. ASSUME NEW i \in Job
      PROVE  OptionsOK(options'[i]) /\ (errors'[i] = 0 => Faithful(args'[i], options'[i]))
  <2>1. CASE i = j
    <3>1. options'[i] = NoOptions /\ args'[i] = <<>>
      BY <1>4, <2>1 DEF DefInv
    <3>2. QED
      BY <3>1, NoOptionsOK
  <2>2. CASE i # j
    <3>1. options'[i] = options[i] /\ args'[i] = args[i] /\ errors'[i] = errors[i]
      BY <1>4, <2>2 DEF DefInv
    <3>2. QED
      BY <3>1 DEF DefInv
  <2>3. QED
    BY <2>1, <2>2
<1>8. DefInv'
  BY <1>4, <1>5, <1>6, <1>7 DEF DefInv
<1>9. \A i \in Job : named[i] = Null /\ named'[i] # Null => i = j
  BY <1>4 DEF DefInv
<1>10. named'[j] = nj
  BY <1>4 DEF DefInv
<1>11. DeclaredStep
  <2>1. nj.build = Chain(o, Defaults)
    OBVIOUS
  <2>2. \A m, n \in 1..Len(args[j]) :
           m # n /\ args[j][m].opt \in Options => args[j][m].opt # args[j][n].opt
    BY <1>1 DEF Faithful
  <2>3. QED
    BY <1>1, <1>2, <1>9, <1>10, <2>1, <2>2, ChainIs DEF DeclaredStep
<1>12. QED
  BY <1>8, <1>11

(* Every step of the macro, and of a producer.                             *)
LEMMA DefStep == DefInv /\ DefNext => DefInv' /\ DeclaredStep
<1> SUFFICES ASSUME DefInv, DefNext PROVE DefInv' /\ DeclaredStep
  OBVIOUS
<1>1. CASE \E j \in Job : \E w \in Words : \E v \in Literals(w) :
                interpret_job_arg(j, [opt |-> w, value |-> v])
  <2>1. DefInv'
    BY <1>1, ArgumentStep
  <2>2. named' = named
    BY <1>1 DEF interpret_job_arg
  <2>3. QED
    BY <2>1, <2>2 DEF DeclaredStep
<1>2. CASE \E j \in Job : Expand(j)
  BY <1>2, ExpandStep
<1>3. CASE \E j \in Job : \E overrides \in Protos \cup {Null} : Spawn(j, overrides)
  BY <1>3 DEF Spawn, DefInv, DeclaredStep
<1>4. CASE \E name \in Names : SpawnByName(name)
  BY <1>4 DEF SpawnByName, DefInv, DeclaredStep
<1>5. QED
  BY <1>1, <1>2, <1>3, <1>4 DEF DefNext
=============================================================================
