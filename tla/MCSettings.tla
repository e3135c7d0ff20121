----------------------------- MODULE MCSettings -----------------------------
EXTENDS Settings
\* Each packet with values inside, at and beyond its range.
MCCommands ==
    {<<"test", 0, 0>>, <<"test", 1, 0>>,
     <<"time1", 59, 59>>, <<"time1", 60, 0>>,
     <<"time2", 15, 10>>, <<"time2", 23, 0>>, <<"time2", 24, 0>>,
     <<"phase", 0, 0>>, <<"phase", 32, 0>>, <<"phase", 33, 0>>,
     <<"tariff", 2, 0>>, <<"tariff", 3, 0>>, <<"tariff", 4, 0>>,
     <<"voltageAmp", 13, 9>>, <<"voltageAmp", 0, 48>>,
     <<"currentAmp", 130, 90>>, <<"currentAmp", 131, 90>>}
\* The first hour past 255, and the packet that sets the minutes.
MCLate == {<<"time2", 16, 10>>, <<"time1", 0, 30>>}
============================================================================
