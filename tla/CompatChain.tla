----------------------------- MODULE CompatChain -----------------------------
(***************************************************************************)
(* tools/check_compat.py: the gate between the schema of the last release  *)
(* (the baseline) and the next one.  A release whose check is green moves  *)
(* the baseline forward (tools/generate.py --baseline), so the check only  *)
(* ever compares neighbours; what it promises is about every earlier one.  *)
(*                                                                         *)
(* A schema maps the full names of its messages, enums and services to     *)
(* their descriptors.  Majors signed off by hand are left out: they move   *)
(* the baseline whatever the check says.                                   *)
(***************************************************************************)
EXTENDS Integers

CONSTANTS
    MessageNames, MessageDescs,  \* names, and the descriptors protoc may write
    EnumNames, EnumDescs,
    ServiceNames, ServiceDescs

VARIABLES
    baseline,  \* the schema of the last release
    known      \* ghost: what the releases so far have promised

vars == <<baseline, known>>

-----------------------------------------------------------------------------
(* Descriptors. *)

\* Faulty variant: one kind of range read as the other.
EnumReservedHalfOpen(enum) == UNION {r[1]..(r[2] - 1) : r \in enum.ranges}

\* _reserved_numbers and _enum_reserved_numbers: the end of a range of field
\* numbers is exclusive, that of enum numbers inclusive.
ReservedNumbers(message) == UNION {r[1]..(r[2] - 1) : r \in message.ranges}
EnumReservedNumbers(enum) == UNION {r[1]..r[2] : r \in enum.ranges}

\* What protoc accepts: no field has a reserved number or name, no value a
\* reserved number or name.  Ranges are as descriptors hold them.
Fields(message) == DOMAIN message.fields
ReservedAsWritten(message) == UNION {r[1]..(r[2] - 1) : r \in message.ranges}
EnumReservedAsWritten(enum) == UNION {r[1]..r[2] : r \in enum.ranges}

ASSUME ProtocAccepts ==
    /\ \A d \in MessageDescs :
          /\ Fields(d) \subseteq Nat
          /\ \A r \in d.ranges : r[1] \in Nat /\ r[2] \in Nat
          /\ \A n \in Fields(d) :
                n \notin ReservedAsWritten(d) /\ d.fields[n].name \notin d.reservedNames
    /\ \A d \in EnumDescs :
          /\ \A r \in d.ranges : r[1] \in Nat /\ r[2] \in Nat
          /\ \A v \in DOMAIN d.values :
                d.values[v] \in Nat \ EnumReservedAsWritten(d) /\ v \notin d.reservedNames

\* The schemas: any of the names, each with one of the descriptors.
Named(names, descs) == UNION {[S -> descs] : S \in SUBSET names}

Schemas == [messages: Named(MessageNames, MessageDescs),
            enums: Named(EnumNames, EnumDescs),
            services: Named(ServiceNames, ServiceDescs)]

-----------------------------------------------------------------------------
(* incompatibilities(baseline, current), as a set of findings. *)

\* _dropped_reservations: numbers and names the baseline reserves and the tree
\* no longer does.
Dropped(was, now, wasNumbers, nowNumbers) ==
    {<<"number", n>> : n \in wasNumbers \ nowNumbers}
      \cup {<<"name", x>> : x \in was.reservedNames \ now.reservedNames}

\* A renamed field is no finding: the wire keys by number.
FieldBroken(was, now, n) ==
    IF n \in Fields(now)
      THEN \/ now.fields[n].type # was.fields[n].type
           \/ now.fields[n].label # was.fields[n].label
           \/ now.fields[n].typeName # was.fields[n].typeName
      ELSE n \notin ReservedNumbers(now)

\* Faulty variant: reservations are not compared.
MessageFindingsOfFields(was, now) ==
    {<<"field", n>> : n \in {k \in Fields(was) : FieldBroken(was, now, k)}}

MessageFindings(was, now) ==
    {<<"field", n>> : n \in {k \in Fields(was) : FieldBroken(was, now, k)}}
      \cup Dropped(was, now, ReservedNumbers(was), ReservedNumbers(now))

\* A value may not go, reserved or not, nor change its number.
ValueBroken(was, now, v) == v \notin DOMAIN now.values \/ now.values[v] # was.values[v]

EnumFindings(was, now) ==
    {<<"value", v>> : v \in {x \in DOMAIN was.values : ValueBroken(was, now, x)}}
      \cup Dropped(was, now, EnumReservedNumbers(was), EnumReservedNumbers(now))

\* The types a peer calls a method with; of its descriptor only these are
\* compared, not whether its client or its server streams.
Signature(method) == <<method.input, method.output>>

\* Faulty variant: the response type is not compared.
MethodBrokenByRequest(was, now, m) ==
    m \notin DOMAIN now.methods \/ now.methods[m].input # was.methods[m].input

MethodBroken(was, now, m) ==
    m \notin DOMAIN now.methods \/ Signature(now.methods[m]) # Signature(was.methods[m])

ServiceFindings(was, now) ==
    {<<"method", m>> : m \in {x \in DOMAIN was.methods : MethodBroken(was, now, x)}}

\* Green: everything the baseline has is there and has no finding.
Compatible(was, now) ==
    /\ \A m \in DOMAIN was.messages :
          m \in DOMAIN now.messages /\ MessageFindings(was.messages[m], now.messages[m]) = {}
    /\ \A e \in DOMAIN was.enums :
          e \in DOMAIN now.enums /\ EnumFindings(was.enums[e], now.enums[e]) = {}
    /\ \A x \in DOMAIN was.services :
          x \in DOMAIN now.services /\ ServiceFindings(was.services[x], now.services[x]) = {}

-----------------------------------------------------------------------------
(* Releases. *)

\* How a peer reads field n: not its name.
Shape(field) == <<field.type, field.label, field.typeName>>

\* What a peer built from schema s relies on, and what s promises never to use.
ShapesOf(s) ==
    UNION {{<<m, n, Shape(s.messages[m].fields[n])>> : n \in Fields(s.messages[m])}
              : m \in DOMAIN s.messages}
RetiredOf(s) ==
    UNION {{<<e, n>> : n \in EnumReservedAsWritten(s.enums[e])} : e \in DOMAIN s.enums}
SignaturesOf(s) ==
    UNION {{<<x, m, Signature(s.services[x].methods[m])>> : m \in DOMAIN s.services[x].methods}
              : x \in DOMAIN s.services}

Promises(s) == [shapes |-> ShapesOf(s), retired |-> RetiredOf(s),
                signatures |-> SignaturesOf(s)]

\* No field that is there is read as retired.
TypeOK ==
    /\ baseline \in Schemas
    /\ \A m \in DOMAIN baseline.messages :
          Fields(baseline.messages[m]) \cap ReservedNumbers(baseline.messages[m]) = {}
    /\ DOMAIN known = {"shapes", "retired", "signatures"}

Init ==
    /\ baseline \in Schemas
    /\ known = Promises(baseline)

\* The check is green, the release moves the baseline.
Release(next) ==
    /\ Compatible(baseline, next)
    /\ baseline' = next
    /\ known' = [shapes |-> known.shapes \cup ShapesOf(next),
                 retired |-> known.retired \cup RetiredOf(next),
                 signatures |-> known.signatures \cup SignaturesOf(next)]

Next == \E next \in Schemas : Release(next)

Spec == Init /\ [][Next]_vars

-----------------------------------------------------------------------------
(* Correctness: about all earlier releases, not only the last one. *)

(* A field number that any release has used is never used with another type, *)
(* label or message type, however many releases lie between: the docstring's *)
(* reserve-then-reuse guard.                                                 *)
NumbersKeepTheirShape ==
    \A p \in known.shapes :
        p[1] \in DOMAIN baseline.messages
          /\ (p[2] \in Fields(baseline.messages[p[1]]) =>
                Shape(baseline.messages[p[1]].fields[p[2]]) = p[3])

(* An enum number that any release has reserved is never given to a value.   *)
RetiredStayUnused ==
    \A p \in known.retired :
        p[1] \in DOMAIN baseline.enums
          /\ \A v \in DOMAIN baseline.enums[p[1]].values :
                baseline.enums[p[1]].values[v] # p[2]

(* A method that any release had is still there, with the request and the    *)
(* response type it had: the table's "a method removed, or its               *)
(* request/response type changed".  It says no more than that: a method that *)
(* starts or stops streaming keeps its types, is green, and fails when a     *)
(* peer of an earlier release calls it.                                      *)
SignaturesKept ==
    \A p \in known.signatures :
        /\ p[1] \in DOMAIN baseline.services
        /\ p[2] \in DOMAIN baseline.services[p[1]].methods
        /\ Signature(baseline.services[p[1]].methods[p[2]]) = p[3]
=============================================================================
