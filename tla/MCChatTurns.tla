----------------------------- MODULE MCChatTurns -----------------------------
(* A small instance of ChatTurns: a text, which drives a turn or answers a   *)
(* dialog, a session command and a path command.                             *)
EXTENDS ChatTurns

CONSTANTS text, session, path

MCTurns == {text, session, path}
MCKinds == [t \in MCTurns |-> CASE t = session -> "session"
                                [] t = path -> "path"
                                [] OTHER -> "text"]
=============================================================================
