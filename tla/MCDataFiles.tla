---------------------------- MODULE MCDataFiles ----------------------------
EXTENDS DataFiles

At(samples, converged) == [samples |-> samples, converged |-> converged]

\* Two roots with a late or an early convergence, a checkpoint without samples,
\* a root without any, and a sample that has no mass.
MCDatasets ==
  {<< <<At(<<"a", "b">>, FALSE), At(<<"c">>, TRUE), At(<<"z">>, FALSE)>>, <<At(<<"d", "e">>, FALSE)>> >>,
   << <<At(<<>>, FALSE), At(<<"a">>, FALSE)>>, <<At(<<>>, TRUE)>>, <<At(<<"b", "c", "d">>, TRUE)>> >>,
   << <<At(<<"a", "b">>, FALSE), At(<<"m", "c">>, FALSE)>> >>,
   << <<At(<<>>, FALSE)>> >>}
MCSamples == {"a", "b", "c", "d", "e", "m", "z"}
MCMassless == {"m"}

MCArguments ==
  [perFile : {<<1, 2>>, <<2, 1>>, <<2, 3>>, <<3, 2>>, <<9, 9>>}, maxSamples : {0, 1, 3, 4, 9}]
=============================================================================
