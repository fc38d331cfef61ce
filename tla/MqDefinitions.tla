---------------------------- MODULE MqDefinitions ---------------------------
(***************************************************************************)
(* From #[job(...)] to a row: how the attribute macro reads its arguments, *)
(* the chain of setters it generates, and what a producer's JobBuilder     *)
(* sends to mq_insert.                                                     *)
(***************************************************************************)
EXTENDS Integers, Sequences

CONSTANTS
    Null,       \* None
    Job,        \* functions marked #[job]
    Path, PathOf, \* module paths with a name, and that of each function: two
                \* functions in different blocks of a module share it
    Names, ChannelNames, Retries, Secs, \* literals that may be given as options
    Protos,     \* functions for set_proto, each the fields it sets
    NoLiteral,  \* anything else: a literal of another type
    MaxArgs,    \* bound on the arguments of each attribute
    MaxInt      \* the greatest i32, small

(* u32: what a literal for retries must parse to.                          *)
U32 == 0..(2 * MaxInt + 1)

(* The values each option takes.                                           *)
Fits == [name         |-> Names,
         channel_name |-> ChannelNames,
         retries      |-> Retries,
         backoff_secs |-> Secs,
         ordered      |-> BOOLEAN,
         proto        |-> Protos]

Options == DOMAIN Fits

(* An argument is name = literal, a string literal alone (the name), the   *)
(* word ordered, or proto(path): [opt, value].  Of opt, unknown is any     *)
(* other word and path a path of several segments.                         *)
Words == Options \cup {"unknown", "path"}

Literals(opt) == {NoLiteral} \cup (IF opt \in Options THEN Fits[opt] ELSE {})

NoOptions == [o \in Options |-> Null]

(* JobBuilder: the fields an option can set.                               *)
BuilderField == {"channel_name", "retries", "retry_backoff", "ordered"}

BuildType == [channel_name  : ChannelNames \cup {""},
              retries       : U32,
              retry_backoff : Secs \cup {1},
              ordered       : BOOLEAN]

NamedJob == [name : Names \cup Path, build : BuildType]

Defaults == [channel_name |-> "", retries |-> 4, retry_backoff |-> 1, ordered |-> FALSE]

ASSUME DefinitionsAssumption ==
    /\ \A o \in Options : Null \notin Fits[o] /\ NoLiteral \notin Fits[o]
    /\ PathOf \in [Job -> Path]
    /\ MaxArgs \in [Job -> Nat]
    /\ MaxInt \in Nat
    /\ Retries \subseteq U32
    /\ \A p \in Protos : [f \in BuilderField |-> IF f \in DOMAIN p THEN p[f] ELSE Defaults[f]]
                              \in BuildType
    /\ 4 \in U32
    /\ Null \notin NamedJob

VARIABLES
    args,       \* the arguments of each attribute read so far
    options,    \* JobOptions of each
    errors,     \* how many arguments were rejected
    named,      \* the NamedJob a function becomes, or Null
    sent        \* parameters of an mq_insert under way, or Null

definitions == <<args, options, errors, named, sent>>

DefInit ==
    /\ args = [j \in Job |-> <<>>]
    /\ options = [j \in Job |-> NoOptions]
    /\ errors = [j \in Job |-> 0]
    /\ named = [j \in Job |-> Null]
    /\ sent = Null

-----------------------------------------------------------------------------
(* Mutant: the last one wins.                                              *)
AcceptsAgain(o, arg) == arg.opt \in Options /\ arg.value \in Fits[arg.opt]

Accepts(o, arg) ==
    /\ arg.opt \in Options
    /\ arg.value \in Fits[arg.opt]
    /\ o[arg.opt] = Null

(* A path of several segments has no ident, and there is no else.          *)
interpret_job_arg(j, arg) ==
    /\ named[j] = Null
    /\ Len(args[j]) < MaxArgs[j]
    /\ args' = [args EXCEPT ![j] = Append(@, arg)]
    /\ options' = IF Accepts(options[j], arg)
                  THEN [options EXCEPT ![j][arg.opt] = arg.value] ELSE options
    /\ errors' = IF Accepts(options[j], arg) \/ arg.opt = "path"
                 THEN errors ELSE [errors EXCEPT ![j] = @ + 1]
    /\ UNCHANGED <<named, sent>>

Set(b, field, value) == IF value = Null THEN b ELSE [b EXCEPT ![field] = value]

SetProto(b, proto) ==
    IF proto = Null THEN b
    ELSE [f \in DOMAIN b |-> IF f \in DOMAIN proto THEN proto[f] ELSE b[f]]

(* Mutant: the prototype applied last.                                     *)
ChainProtoLast(o, b) ==
    SetProto(Set(Set(Set(Set(b,
        "channel_name", o.channel_name), "retries", o.retries),
        "retry_backoff", o.backoff_secs), "ordered", o.ordered), o.proto)

(* The chain of setters in the generated BuildFn.                          *)
Chain(o, b) ==
    Set(Set(Set(Set(SetProto(b, o.proto),
        "channel_name", o.channel_name), "retries", o.retries),
        "retry_backoff", o.backoff_secs), "ordered", o.ordered)

NameOf(j, o) == IF o.name = Null THEN PathOf[j] ELSE o.name

(* The code compiles if no argument was rejected; the options are history. *)
Expand(j) ==
    /\ named[j] = Null
    /\ errors[j] = 0
    /\ named' = [named EXCEPT ![j] = [name |-> NameOf(j, options[j]),
                                      build |-> Chain(options[j], Defaults)]]
    /\ args' = [args EXCEPT ![j] = <<>>]
    /\ options' = [options EXCEPT ![j] = NoOptions]
    /\ UNCHANGED <<errors, sent>>

(* u32 as i32.                                                             *)
AsI32(n) == IF n <= MaxInt THEN n ELSE n - 2 * (MaxInt + 1)

(* retries + 1 in mq_insert; Null: integer out of range.                   *)
AttemptsOf(retries) ==
    IF AsI32(retries) = MaxInt THEN Null ELSE AsI32(retries) + 1

(* The crate has been compiled.                                            *)
Compiled == \A j \in Job : named[j] # Null

(* What spawn sends: a builder with the setters a producer calls on it.    *)
Params(name, by, b) ==
    [name |-> name, by |-> by, channel_name |-> b.channel_name, ordered |-> b.ordered,
     retry_backoff |-> b.retry_backoff, attempts |-> AttemptsOf(b.retries)]

(* NamedJob::builder, setters, spawn.                                      *)
Spawn(j, overrides) ==
    /\ Compiled /\ sent = Null
    /\ sent' = Params(named[j].name, j, SetProto(named[j].build, overrides))
    /\ UNCHANGED <<args, options, errors, named>>

(* JobBuilder::new(name), spawn.                                           *)
SpawnByName(name) ==
    /\ Compiled /\ sent = Null
    /\ sent' = Params(name, Null, Defaults)
    /\ UNCHANGED <<args, options, errors, named>>

DefNext ==
    \/ \E j \in Job :
          \/ \E o \in Words : \E v \in Literals(o) :
                interpret_job_arg(j, [opt |-> o, value |-> v])
          \/ Expand(j)
          \/ \E overrides \in Protos \cup {Null} : Spawn(j, overrides)
    \/ \E name \in Names : SpawnByName(name)

-----------------------------------------------------------------------------
(* What the documentation of #[job] says of a list of arguments.           *)

Given(as, o) == {as[i].value : i \in {n \in 1..Len(as) : as[n].opt = o}}

GivenOr(as, o, default) == IF Given(as, o) = {} THEN default ELSE CHOOSE v \in Given(as, o) : TRUE

(* Explicit option, else the prototype's, else the default.                *)
Declared(as, o, field) ==
    LET proto == GivenOr(as, "proto", Null)
    IN  GivenOr(as, o, IF proto # Null /\ field \in DOMAIN proto THEN proto[field]
                       ELSE Defaults[field])

(* "The order is not important, but the prototype will always be applied   *)
(* first so that explicit options can override it.  Each option can only   *)
(* be provided once in the attribute."                                     *)
AsDeclared ==
    [][\A j \in Job : named[j] = Null /\ named'[j] # Null =>
          LET as == args[j] IN
          /\ \A m, n \in 1..Len(as) : m # n /\ as[m].opt \in Options => as[m].opt # as[n].opt
          /\ named'[j].name = GivenOr(as, "name", PathOf[j])
          /\ named'[j].build =
               [channel_name  |-> Declared(as, "channel_name", "channel_name"),
                retries       |-> Declared(as, "retries", "retries"),
                retry_backoff |-> Declared(as, "backoff_secs", "retry_backoff"),
                ordered       |-> Declared(as, "ordered", "ordered")]]_definitions
=============================================================================
