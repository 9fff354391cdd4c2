------------------------------- MODULE MCJobs -------------------------------
\* Instances of Jobs: an hour is two ticks, and the run lasts one more.
EXTENDS Jobs

Hour == 2
LastTick == Hour + 1
=============================================================================
