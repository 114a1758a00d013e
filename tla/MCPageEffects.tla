--------------------------- MODULE MCPageEffects ----------------------------
EXTENDS PageEffects

BoostLists == {<<{"sound"}>>, <<{"midi", "sound"}>>, <<{}, {"midi"}>>}

InfoIndexes == [boosts |-> {1, 4}, streams |-> {2}, sent |-> {1, 2, 3}]

Texts == {<<"boosts", 4>>, <<"sent", 2>>}
=============================================================================
