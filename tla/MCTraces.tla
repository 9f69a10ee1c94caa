------------------------------ MODULE MCTraces ------------------------------
(* Instances of Traces for TLC.                                            *)
EXTENDS Traces

CONSTANTS bash, edit, search

\* Three names reach MaxNames; every role but one is read like "user".
AllNames == {bash, edit, search}

Entries ==
  {[by |-> "claude_code", kind |-> "entry", role |-> r] : r \in {"user", "assistant", None}}
    \cup {[by |-> "claude_code", kind |-> "end", outcome |-> "failure"]}

Events ==
  {[by |-> "openclaw", kind |-> "message", role |-> r] : r \in {"user", "assistant", None}}
    \cup {[by |-> "openclaw", kind |-> "call", name |-> n] : n \in {bash, edit, None}}
    \cup {[by |-> "openclaw", kind |-> "result", ok |-> ok] : ok \in BOOLEAN}
    \cup {[by |-> "openclaw", kind |-> "end", outcome |-> "success"],
          [by |-> "codex", kind |-> "message", role |-> "assistant"],
          [by |-> "codex", kind |-> "call", name |-> edit],
          [by |-> "codex", kind |-> "result", ok |-> FALSE]}

Conversations == {[by |-> "hermes", kind |-> "conversation", role |-> r] : r \in {"assistant", None}}

AllLines == Entries \cup Events \cup Conversations \cup {[by |-> "any", kind |-> k] : k \in {"note", "broken"}}

AllBlocks ==
  {[kind |-> "call", name |-> n] : n \in AllNames \cup {None}}
    \cup {[kind |-> "embedded", name |-> n] : n \in {edit, None}}
    \cup {[kind |-> k] : k \in {"prose", "garbled"}}
    \cup {[kind |-> "result", ok |-> ok] : ok \in BOOLEAN}
    \cup {[kind |-> "turn", role |-> r] : r \in {"user", None}}
=============================================================================
