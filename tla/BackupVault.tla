----------------------------- MODULE BackupVault -----------------------------
(***************************************************************************)
(* What the backups promise to the controller, whatever happens inside     *)
(* create_backup: a list of pairs, oldest first.  Nothing enters but the   *)
(* snapshot of a valid config, at the end; the controller removes only the *)
(* oldest, and only beyond the retention count.  Other programs may damage *)
(* or remove a pair; outside counts what is not the controller's doing.    *)
(***************************************************************************)
EXTENDS Naturals, Sequences

CONSTANTS Good, Contents, Retention

VARIABLES kept, outside

\* The YAML file, whether the checksum file still is its digest, and whether that
\* file is text at all: the manifest quotes it.
Pair == [content : Contents, intact : BOOLEAN, legible : BOOLEAN]

Snapshot(content) == [content |-> content, intact |-> TRUE, legible |-> TRUE]

Init == kept = <<>> /\ outside = 0

\* How many of the oldest pairs list_backups(...)[:-retention_count] holds.
Excess(pairs) == IF Len(pairs) > Retention THEN Len(pairs) - Retention ELSE 0

Without(pairs, k) == SubSeq(pairs, k + 1, Len(pairs))

WithSnapshot(content) == Append(kept, Snapshot(content))

Take(content) ==
    /\ content \in Good
    /\ \E k \in 0..Excess(WithSnapshot(content)) : kept' = Without(WithSnapshot(content), k)

\* What to prune is listed once; a pair somebody removes after that is still
\* counted.
Prune ==
    \E k \in 1..Len(kept) : k + Retention <= Len(kept) + outside /\ kept' = Without(kept, k)

Damage(k, pair) ==
    /\ outside' = outside + 1
    /\ ~pair.intact
    /\ kept' = [kept EXCEPT ![k] = pair]

Lose(k) == outside' = outside + 1 /\ kept' = SubSeq(kept, 1, k - 1) \o Without(kept, k)

Next ==
    \/ \E content \in Good : Take(content)
    \/ Prune
    \/ \E k \in DOMAIN kept : Lose(k) \/ \E pair \in Pair : Damage(k, pair)

Spec == Init /\ [][Next]_kept

=============================================================================
