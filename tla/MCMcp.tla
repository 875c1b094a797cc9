------------------------------- MODULE MCMcp -------------------------------
(* One server: a wildcard that makes nothing read-only, an entry that is      *)
(* disabled before one that is not, a file that others may write.            *)
EXTENDS Mcp

Entry(enabled, ro) ==
    [id |-> "deck", valid |-> TRUE, enabled |-> enabled, readOnly |-> ro]

MCFiles ==
    {[writable |-> FALSE, entries |-> <<Entry(TRUE, {"*"})>>],
     [writable |-> FALSE, entries |-> <<Entry(FALSE, {}), Entry(TRUE, {})>>],
     [writable |-> TRUE, entries |-> <<Entry(TRUE, {})>>]}

Ask(op, s, ticket) ==
    [op |-> op, server |-> s, tool |-> "publish", ticket |-> ticket]
MCRequests ==
    {Ask("list", "deck", FALSE), Ask("call", "deck", TRUE), Ask("call", "deck", FALSE),
     Ask("call", "notes", TRUE)}
=============================================================================
