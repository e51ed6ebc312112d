------------------------------ MODULE MCStartup ------------------------------
(* Startup with one round of the older version; each directory may be set  *)
(* in the file, on the command line, in both or in neither.  Two of the    *)
(* pairs make data and database directory the same, one puts the databases *)
(* below the old proofs.                                                   *)
EXTENDS Startup

Options(poetDir, dataDir, dbDir) == [poetDir |-> poetDir, dataDir |-> dataDir, dbDir |-> dbDir]

MCRounds == <<"0">>

MCConfigFiles ==
  {Options(None, None, None), Options(<<"a">>, None, <<"x">>),
   Options(None, DefaultConfig.dataDir, None), Options(<<"a">>, <<"x">>, None)}

MCCommandLines ==
  {Options(None, None, None), Options(<<"b">>, None, None),
   Options(None, None, <<"x">>), Options(<<"b">>, <<"y">>, None),
   Options(DefaultConfig.dataDir, None, None),
   Options(None, <<"y">>, <<"y", "proofs">>)}
==============================================================================
