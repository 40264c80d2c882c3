------------------------ MODULE MCDataLifecycleMutex ------------------------
EXTENDS DataLifecycleMutex, TLC

CONSTANTS retention, erasure, backup, restore, gateway, cli, cli2

\* Two operations of the Gateway process and one each of two commands; the
\* token of the first command may be handed to the Gateway.
MCPid == (retention :> gateway) @@ (erasure :> gateway)
         @@ (backup :> cli) @@ (restore :> cli2)
MCHanded == {<<retention, backup>>}
=============================================================================
