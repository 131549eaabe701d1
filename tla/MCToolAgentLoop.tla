-------------------------- MODULE MCToolAgentLoop ---------------------------
(* Instances of ToolAgentLoop for TLC: no limit on turns, or one on each.  *)
EXTENDS ToolAgentLoop

NoneOrOne == {<<0, 0>>, <<2, 0>>, <<0, 1>>}
=============================================================================
