------------------------------- MODULE JobList --------------------------------
(***************************************************************************)
(* proj2-code/job_list.c: the shell's list of jobs, as operators on        *)
(*   [head   |-> the nodes, in list order, each [pid, status],             *)
(*    length |-> the field the bounds checks of remove and of fg/bg use].  *)
(* length is a count of adds since the list was last empty, not the number *)
(* of nodes: neither kind of removal decrements it.  Indices are the       *)
(* program's, from 0.  A node's name is only printed, and is left out; so  *)
(* is malloc's failure.  job_list_remove_by_pid has no caller.             *)
(***************************************************************************)
EXTENDS Integers, Sequences, SequencesExt

EmptyList == [head |-> <<>>, length |-> 0]

\* job_list_get(idx) # NULL
HasNode(list, idx) == idx < Len(list.head)
ListGet(list, idx) == list.head[idx + 1]

PidsOf(list) == {list.head[i].pid : i \in DOMAIN list.head}
Distinct(list) == \A i, j \in DOMAIN list.head : list.head[i].pid = list.head[j].pid => i = j

\* Mutant: length is set with the first node only.
AddCountsFirst(list, pid, status) ==
  [head |-> Append(list.head, [pid |-> pid, status |-> status]),
   length |-> IF list.head = <<>> THEN 1 ELSE list.length]

\* Appends a node.  length starts again from 1 when the list was empty.
ListAdd(list, pid, status) ==
  [head |-> Append(list.head, [pid |-> pid, status |-> status]),
   length |-> IF list.head = <<>> THEN 1 ELSE list.length + 1]

\* The bounds check of job_list_remove.
Removable(list, idx) == idx < list.length

\* Mutant: the walk stops one node too late.
RemoveNext(list, idx) ==
  [list EXCEPT !.head = RemoveAt(@, IF idx + 2 <= Len(@) THEN idx + 2 ELSE idx + 1)]

ListRemove(list, idx) == [list EXCEPT !.head = RemoveAt(@, idx + 1)]

SetStatus(list, idx, status) == [list EXCEPT !.head[idx + 1].status = status]
===============================================================================
