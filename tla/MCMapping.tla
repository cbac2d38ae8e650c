----------------------------- MODULE MCMapping -----------------------------
(* Instances of Mapping: three batches for two mappers.                    *)
EXTENDS Mapping
TwoModels == <<1, 2>>
ThreeModels == <<1, 2, 3>>
TasksOfTwo == <<<<"b", "c", "d", "e", "f", "g", "h">>, <<"a">>, <<"i">>>>
FourBatches == <<<<"a">>, <<"b">>, <<"i">>, <<"j">>>>
Leftovers == {<<1, "hollow">>, <<2, "plain">>}
Vanishing == {"b", "i"}
=============================================================================
