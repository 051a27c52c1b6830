------------------------------ MODULE MCPipeline ------------------------------
(* Command lines for TLC: well-formed ones with one or two bars and words of  *)
(* one or two tokens, a bar at either end, and two bars side by side.         *)
EXTENDS Pipeline

MCLines ==
  {<<1, Bar, 3>>, <<1, Bar, 3, Bar, 5>>, <<1, 2, Bar, 4, 5>>,
   <<1, Bar>>, <<Bar, 2>>, <<1, Bar, Bar, 4>>}
===============================================================================
