---------------------------- MODULE MCModelClient ----------------------------
(* ModelClient with one ordinary tool and one output tool. *)
EXTENDS ModelClient

MCFunctionTools == <<"search_kb">>
MCOutputTools   == <<"final_result">>
=============================================================================
