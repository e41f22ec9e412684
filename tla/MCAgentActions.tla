---------------------------- MODULE MCAgentActions ----------------------------
(* A small instance of AgentActions for TLC. *)
EXTENDS AgentActions

Field(json, type) ==
    [json |-> json, type |-> type, exported |-> TRUE, embedded |-> FALSE, word |-> "none"]

Defined(fields, requires) == [type |-> Struct(fields), requires |-> requires]

\* The empty payload of every action there is, a type with every kind of field and a
\* validator, and types that may not be registered.
MCDefinitions ==
    [name \in {"agent.health", "site", "raw", "free", "twice", "embeds", "hidden", "blob",
               "pointed", "scalar", ""} |->
        CASE name = "site" ->
               Defined(<<Field("name", String), Field("", Map),
                         Field("at", Pointer(Struct(<<Field("name", Number)>>))),
                         [Field("argv", Slice(String)) EXCEPT !.word = "command"]>>, {"name"})
          [] name = "raw" -> Defined(<<[Field("name", String) EXCEPT !.word = "command"]>>, {})
          [] name = "free" -> Defined(<<Field("name", Slice(Map))>>, {})
          [] name = "twice" -> Defined(<<Field("name", String), Field("name", Number)>>, {})
          [] name = "embeds" ->
               Defined(<<[Field("at", Struct(<<Field("name", Number)>>))
                            EXCEPT !.embedded = TRUE]>>, {})
          [] name = "hidden" -> Defined(<<[Field("", String) EXCEPT !.exported = FALSE]>>, {})
          [] name = "blob" -> Defined(<<Field("at", Pointer(Slice(Byte)))>>, {})
          [] name = "pointed" ->
               Defined(<<[Field("argv", Slice(Pointer(String)))
                            EXCEPT !.word = "command"]>>, {})
          [] name = "scalar" -> [type |-> Slice(String), requires |-> {}]
          [] OTHER -> Defined(<<>>, {})]

Simple == {Null, String, Number, Array(<<>>), Array(<<Null>>), Array(<<String>>), Object(<<>>)}
Names == {"name", "Name", "at", "argv"}
Inner == {Object(<< <<n, v>> >>) : n \in {"name", "Name"}, v \in Simple}
           \cup {Object(<< <<"name", v>>, <<"name", w>> >>) : v, w \in {Number, Null}}

MCDocuments == Simple \cup {Object(s) : s \in SeqOf(Names \X (Simple \cup Inner), 2)}

\* With a key or without, to an action that was registered, was not or has no name.
MCContent(r) ==
    CASE r = "health" -> RequestOf("agent.health", Object(<<>>), 2, 36)
      [] r = "site" -> RequestOf("site", Object(<< <<"name", String>> >>), 15, 0)
      [] r = "raw" -> RequestOf("raw", Object(<<>>), 2, 36)
      [] r = "unnamed" -> RequestOf("", Object(<<>>), 2, 36)

=============================================================================
