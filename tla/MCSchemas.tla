------------------------------ MODULE MCSchemas ------------------------------
(* A small instance of listing and calling for TLC. *)
EXTENDS SchemasProps

CONSTANTS x, more

Form(input, output, owns, required) ==
  [input |-> input, output |-> output, owns |-> owns, required |-> required]

(* A closed tool without parameters of these names, with a result to mirror *)
(* into, one that has a session_id of its own, and the SDK's.               *)
MCForms == {Form("closed", "object", {}, {}),
            Form("object", "none", {"session_id"}, {"session_id"})}
MCGetMoreForm == Form("object", "none", {"context"}, {"context"})

Prompted == [handles |-> TRUE, hook |-> FALSE, agent |-> FALSE, context |-> TRUE]
Hooked   == [handles |-> TRUE, hook |-> TRUE, agent |-> TRUE, context |-> FALSE]
Untraced == [handles |-> FALSE, hook |-> FALSE, agent |-> FALSE, context |-> TRUE]

Setup(c, a, session, first, late) ==
  [cfg |-> c, adapter |-> a, session |-> session, first |-> first, late |-> late]

(* x on the first page, after it, in a session, or registered after Track. *)
MCSetups == {Setup(Prompted, "mcpgo", {}, {x}, {}), Setup(Prompted, "mcpgo", {}, {x}, {x}),
             Setup(Prompted, "mcpgo", {x}, {x}, {}), Setup(Untraced, "mcpgo", {}, {x}, {}),
             Setup(Prompted, "official", {}, {x}, {}),
             Setup(Prompted, "official", {}, {more}, {x}),
             Setup(Hooked, "official", {}, {x}, {})}
=============================================================================
