-------------------------------- MODULE Handles --------------------------------
(***************************************************************************)
(* Which session a tools/call belongs to and what the agent is told of it. *)
(* Nothing is remembered between calls: the agent sends the session it was *)
(* told back as an argument, so that argument decides, unless a hook of the *)
(* customer resolves sessions or the argument is the customer's own.        *)
(*                                                                         *)
(* Of a value only its class matters: "absent" (missing, no string or       *)
(* blank), "start", "issued" (the shape of an id this SDK issues, as those  *)
(* it mints and derives have) and "other".                                  *)
(***************************************************************************)

SessionValues == {"absent", "start", "issued", "other"}

(* "none": no ResolveSessionID; "blank": it fails, panics or yields nothing. *)
HookAnswers == {"none", "blank", "id"}

Sources == {"hook", "minted", "supplied", "invalid", "foreign"}

Resolution(source, hookMode) == [source |-> source, hookMode |-> hookMode]

(* ResolveSessionHandle: hook mode comes before the question of whose the   *)
(* argument is, which is false for every tool there.                        *)
ResolveSessionHandle(value, answer, ours) ==
  IF answer # "none"
  THEN Resolution(IF answer = "id" THEN "hook" ELSE "minted", TRUE)
  ELSE Resolution(CASE ~ours -> "foreign"
                    [] ours /\ value \in {"absent", "start"} -> "minted"
                    [] ours /\ value = "issued" -> "supplied"
                    [] ours /\ value = "other" -> "invalid", FALSE)

(* The event bears a session: the one that was supplied, or a new one. *)
HasSession(res) == res.source \in {"hook", "minted", "supplied"}

(* BuildMintBackText: what the text block says. *)
MintBackText(res) ==
  CASE res.hookMode -> "none"
    [] ~res.hookMode /\ res.source = "minted" -> "issued"
    [] ~res.hookMode /\ res.source = "invalid" -> "unrecognized"
    [] OTHER -> "none"

(* BuildMirror: the members of mcp_session, with the status it announces. *)
Mirror(res, agentID) ==
  LET prompted == ~res.hookMode /\ res.source # "foreign" IN
  [members |-> (IF prompted THEN {"status"} ELSE {})
               \cup (IF prompted /\ HasSession(res) THEN {"session_id"} ELSE {})
               \cup (IF agentID THEN {"agent_id"} ELSE {}),
   status |-> IF ~prompted THEN "none"
              ELSE CASE res.source = "minted" -> "issued"
                     [] res.source = "supplied" -> "active"
                     [] OTHER -> "unrecognized"]

(* withoutHandleMirror: a mirror is one of this SDK's if some resolution    *)
(* would have produced it.                                                  *)
MirrorIsOurs(mirror) ==
  \E res \in [source : {"minted", "supplied", "invalid"}, hookMode : {FALSE}]
             \cup {Resolution("hook", TRUE)},
     agentID \in BOOLEAN :
       mirror.members # {} /\ mirror = Mirror(res, agentID)
=============================================================================
