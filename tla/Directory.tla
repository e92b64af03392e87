----------------------------- MODULE Directory -----------------------------
(***************************************************************************)
(* A directory as a function from names to inodes, and the changes a file  *)
(* system makes to it, in a form that can be replayed: on the directory    *)
(* programs see and on each one a power loss may leave, where an earlier   *)
(* change may be missing.  Recovery and OnlineBackup use it.               *)
(***************************************************************************)

Empty == <<"empty", 0>>

(* A new entry at a name nobody uses. *)
Bind(d, name, inode) == [d EXCEPT ![name] = IF @ = Empty THEN inode ELSE @]

Unbind(d, name) == [d EXCEPT ![name] = Empty]

(* rename(2): what the destination named is replaced. *)
Rename(d, from, to) ==
  IF d[from] = Empty THEN d ELSE [d EXCEPT ![from] = Empty, ![to] = d[from]]
=============================================================================
