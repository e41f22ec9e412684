---------------------------- MODULE ActionHandler ----------------------------
(***************************************************************************)
(* What the agent accepts as an action: the typed definitions of           *)
(* internal/agent/actions.go, and Server.handleAction of server.go.        *)
(*                                                                         *)
(* A JSON value is a record: null, a scalar by its kind, an array with its *)
(* items or an object with its members in the order they were written, so  *)
(* that a key may come twice.  A payload type is a record like it: "json"  *)
(* is the name a struct field has on the wire ("" where it has none), and  *)
(* "word" tells whether its names contain shell, script or command.  Text  *)
(* that is no JSON is a value of a kind of its own.  A definition is a     *)
(* payload type and what its validator refuses: a payload in which a field *)
(* it requires is at its zero value, that is, absent or null (a String is  *)
(* one that is not empty, a Number one that is not zero).                  *)
(***************************************************************************)
EXTENDS Integers, Sequences, SequencesExt, FiniteSets

CONSTANTS
    Definitions,   \* the payload type of each action somebody defines, and what it requires
    Documents      \* bound: payloads, with two members and array items of one at most

Null == [kind |-> "null"]
String == [kind |-> "string"]
Number == [kind |-> "number"]
Array(items) == [kind |-> "array", items |-> items]
Object(members) == [kind |-> "object", members |-> members]

Slice(elem) == [kind |-> "slice", elem |-> elem]
Pointer(elem) == [kind |-> "pointer", elem |-> elem]
Struct(fields) == [kind |-> "struct", fields |-> fields]
Byte == [kind |-> "uint8"]
Map == [kind |-> "map"]

\* The names a struct has on the wire, and the field of a name: the last.
JsonNames(type) == {f.json : f \in ToSet(type.fields)} \ {""}

FieldOf(type, name) ==
    LET at == {n \in DOMAIN type.fields : type.fields[n].json = name}
    IN  type.fields[CHOOSE n \in at : \A k \in at : k <= n]

-----------------------------------------------------------------------------
(* DefineAction: which types may be payloads *)

RECURSIVE Pointee(_)
Pointee(type) == IF type.kind = "pointer" THEN Pointee(type.elem) ELSE type

\* A command is only accepted as a list of strings.
RejectsRawCommandField(field) ==
    \/ field.word \in {"shell", "script"}
    \/ field.word = "command" /\ Pointee(field.type) # Slice(String)

RECURSIVE ExplicitWithin(_)
ExplicitWithin(type) ==
    CASE type.kind = "pointer" -> ExplicitWithin(type.elem)
      [] type.kind = "slice" -> type.elem # Byte /\ ExplicitWithin(type.elem)
      [] type.kind = "struct" ->
           /\ \A f \in ToSet(type.fields) :
                 /\ f.exported /\ ~f.embedded
                 /\ f.json # "" => ~RejectsRawCommandField(f) /\ ExplicitWithin(f.type)
           /\ \A m, n \in DOMAIN type.fields :
                 type.fields[m].json = type.fields[n].json /\ m # n
                     => type.fields[m].json = ""
      [] OTHER -> type # Map

\* validatePayloadType at the root.
Explicit(type) == type.kind = "struct" /\ ExplicitWithin(type)

\* The actions that are defined and registered.
Registry ==
    [name \in {n \in DOMAIN Definitions : n # "" /\ Explicit(Definitions[n].type)}
        |-> Definitions[name]]

-----------------------------------------------------------------------------
(* decodeActionPayload: which payloads have a type *)

Keys(value) == [n \in DOMAIN value.members |-> value.members[n][1]]

RECURSIVE UniqueKeys(_)
UniqueKeys(value) ==
    CASE value.kind = "object" -> /\ IsInjective(Keys(value))
                                  /\ \A m \in ToSet(value.members) : UniqueKeys(m[2])
      [] value.kind = "array" -> \A v \in ToSet(value.items) : UniqueKeys(v)
      [] OTHER -> TRUE

\* Mutant: names are left to a decoder that ignores the unknown ones.
RECURSIVE FieldNamesUnchecked(_, _)
FieldNamesUnchecked(value, type) ==
    CASE type.kind = "pointer" -> value = Null \/ FieldNamesUnchecked(value, type.elem)
      [] type.kind = "slice" ->
           \/ value = Null
           \/ /\ value.kind = "array"
              /\ \A v \in ToSet(value.items) : FieldNamesUnchecked(v, type.elem)
      [] type.kind = "struct" -> value.kind = "object"
      [] OTHER -> TRUE

\* validateJSONFieldNames: every name is one of the type's, letter by letter.
RECURSIVE FieldNamesMatch(_, _)
FieldNamesMatch(value, type) ==
    CASE type.kind = "pointer" -> value = Null \/ FieldNamesMatch(value, type.elem)
      [] type.kind = "slice" ->
           \/ value = Null
           \/ /\ value.kind = "array"
              /\ \A v \in ToSet(value.items) : FieldNamesMatch(v, type.elem)
      [] type.kind = "struct" ->
           /\ value.kind = "object"
           /\ \A m \in ToSet(value.members) :
                 m[1] \in JsonNames(type) /\ FieldNamesMatch(m[2], FieldOf(type, m[1]).type)
      [] OTHER -> TRUE

\* Names are matched already: what is left to the decoder is the kind of a scalar;
\* null leaves it at its zero value.
RECURSIVE KindsMatch(_, _)
KindsMatch(value, type) ==
    CASE value = Null -> TRUE
      [] type.kind = "pointer" -> KindsMatch(value, type.elem)
      [] type.kind = "slice" ->
           /\ value.kind = "array"
           /\ \A v \in ToSet(value.items) : KindsMatch(v, type.elem)
      [] type.kind = "struct" ->
           /\ value.kind = "object"
           /\ \A m \in ToSet(value.members) :
                 m[1] \in JsonNames(type) => KindsMatch(m[2], FieldOf(type, m[1]).type)
      [] OTHER -> value.kind = IF type = Byte THEN "number" ELSE type.kind

DecodeActionPayload(value, type) ==
    /\ value.kind = "object"
    /\ UniqueKeys(value)
    /\ FieldNamesMatch(value, type)
    /\ KindsMatch(value, type)

\* The definition's own check of the payload that was decoded.
Validates(value, definition) ==
    \A name \in definition.requires :
        \E m \in ToSet(value.members) : m[1] = name /\ m[2] # Null

-----------------------------------------------------------------------------
(* A request: the action's name, the bytes of its key and of its payload,   *)
(* the bytes of its body, whether it says application/json, and the body.   *)

MaxActionPayloadBytes == 65536
MaxActionRequestBytes == MaxActionPayloadBytes + 1024
MaxIdempotencyKeyBytes == 128

\* What ExecuteJob checks before it sends, and what it sends.
Valid(name, payload, payloadBytes, keyBytes) ==
    /\ name # ""
    /\ payloadBytes <= MaxActionPayloadBytes
    /\ payload.kind = "object"
    /\ keyBytes <= MaxIdempotencyKeyBytes

RequestOf(name, payload, payloadBytes, keyBytes) ==
    [name |-> name, keyBytes |-> keyBytes, payloadBytes |-> payloadBytes,
     bytes |-> payloadBytes + 12, json |-> TRUE,
     body |-> Object(<< <<"payload", payload>> >>)]

\* One member, the payload, and it is an object.
IsEnvelope(body) ==
    /\ body.kind = "object"
    /\ UniqueKeys(body)
    /\ Len(body.members) = 1
    /\ body.members[1][1] = "payload"
    /\ body.members[1][2].kind = "object"

\* A request that fails a check is answered with a status from 400 to 499, before the
\* action has begun.
HandleAction(r) ==
    IF /\ r.keyBytes <= MaxIdempotencyKeyBytes
       /\ r.json
       /\ r.bytes <= MaxActionRequestBytes
       /\ IsEnvelope(r.body)
       /\ r.payloadBytes <= MaxActionPayloadBytes
       /\ r.name \in DOMAIN Registry
       /\ LET payload == r.body.members[1][2]
              definition == Registry[r.name]
          IN  DecodeActionPayload(payload, definition.type) /\ Validates(payload, definition)
    THEN "perform"
    ELSE "refuse"

-----------------------------------------------------------------------------
(* The reference: a type, and a document, as the places they have.  A place *)
(* of a type is the path of names that leads to it ("[]" to an item), the   *)
(* fields on the way (its route), what kind of value is there, whether it   *)
(* is pointed to, and how its field is declared; a field without a name is  *)
(* a place that no document has.                                            *)

Undeclared == [exported |-> TRUE, embedded |-> FALSE, word |-> "none"]

Place(kind) ==
    [path |-> <<>>, route |-> <<>>, kind |-> kind, pointer |-> FALSE, field |-> Undeclared]

Below(name, index, places) ==
    {[p EXCEPT !.path = <<name>> \o @, !.route = <<index>> \o @] : p \in places}

Declared(field, place) ==
    IF place.path = <<>>
    THEN [place EXCEPT !.field =
            [n \in DOMAIN Undeclared |->
                IF n = "word" /\ field.json = "" THEN "none" ELSE field[n]]]
    ELSE place

RECURSIVE PlacesOf(_)
PlacesOf(type) ==
    CASE type \in {Map, Slice(Byte)} -> {Place("opaque")}
      [] type.kind = "pointer" ->
           {[p EXCEPT !.pointer = @ \/ p.path = <<>>] : p \in PlacesOf(type.elem)}
      [] type.kind = "slice" -> {Place("array")} \cup Below("[]", 0, PlacesOf(type.elem))
      [] type.kind = "struct" ->
           {Place("object")} \cup
           UNION {LET f == type.fields[k]
                      places == IF f.json = "" THEN {Place("hidden")} ELSE PlacesOf(f.type)
                  IN  Below(f.json, k, {Declared(f, p) : p \in places}) :
                     k \in DOMAIN type.fields}
      [] type = Byte -> {Place("number")}
      [] OTHER -> {Place(type.kind)}

\* Every place is declared where it stands, holds nothing opaque and can be told from
\* the others by its path; nothing is a script, and a command is a list of strings.
PlainlyDeclared(type) ==
    LET places == PlacesOf(type)
    IN  /\ type.kind = "struct"
        /\ \A p \in places :
              /\ p.field.exported /\ ~p.field.embedded
              /\ p.field.word \in {"none", "command"}
              /\ p.kind # "opaque"
              /\ p.field.word = "command" =>
                     \E item \in places : /\ item.path = Append(p.path, "[]")
                                          /\ item.kind = "string"
                                          /\ ~item.pointer
        /\ \A p, q \in places :
              p.path = q.path /\ p.kind # "hidden" /\ q.kind # "hidden" => p.route = q.route

\* The places of a document, each as often as it is written.
RECURSIVE PlacesWritten(_)
PlacesWritten(value) ==
    LET under(name, v) ==
            [n \in DOMAIN PlacesWritten(v) |-> [PlacesWritten(v)[n] EXCEPT !.path = <<name>> \o @]]
        within ==
            CASE value.kind = "object" ->
                   [n \in DOMAIN value.members |->
                       under(value.members[n][1], value.members[n][2])]
              [] value.kind = "array" ->
                   [n \in DOMAIN value.items |-> under("[]", value.items[n])]
              [] OTHER -> <<>>
    IN  <<[path |-> <<>>, kind |-> value.kind]>> \o FlattenSeq(within)

\* Null can stand for a pointer, an array and a scalar.
Takes(place, kind) ==
    \/ kind = place.kind
    \/ kind = "null" /\ (place.pointer \/ place.kind # "object")

\* Every place of the document is written once and is one of the type's, and what is
\* required is there.
Belongs(value, places, requires) ==
    LET written == PlacesWritten(value)
    IN  /\ value.kind = "object"
        /\ \A m, n \in DOMAIN written : written[m].path = written[n].path => m = n
        /\ \A w \in ToSet(written) :
              \E p \in places : p.path = w.path /\ p.kind # "hidden" /\ Takes(p, w.kind)
        /\ \A name \in requires :
              \E w \in ToSet(written) : w.path = <<name>> /\ w.kind # "null"

\* The payloads that belong to an action; none where it may not be defined.
Proper ==
    [name \in DOMAIN Definitions |->
        LET definition == Definitions[name]
            places == PlacesOf(definition.type)
        IN  IF name # "" /\ PlainlyDeclared(definition.type)
            THEN {v \in Documents : Belongs(v, places, definition.requires)}
            ELSE {}]

\* The payloads that are sent to an action and begin it, at each bound of their size
\* and of the key's.
Accepted ==
    [name \in DOMAIN Definitions |->
        {{v \in Documents : /\ Valid(name, v, bytes, keyBytes)
                            /\ HandleAction(RequestOf(name, v, bytes, keyBytes)) = "perform"} :
            bytes \in {2, MaxActionPayloadBytes}, keyBytes \in {0, MaxIdempotencyKeyBytes}}]

=============================================================================
