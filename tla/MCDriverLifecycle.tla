-------------------------- MODULE MCDriverLifecycle --------------------------
EXTENDS DriverLifecycle, TLC

TaskSymmetry == Permutations(Tasks)

\* The drivers that compete for PI0, with the others of the LED; the two on the
\* I2C bus; and gpio.c with one of its competitors.
Installed ==
  {{"gpioled", "dtsplatform", "led_chr", "timer"}, {"ap3216c", "rd04"},
   {"gpio", "gpioled"}}

\* Every acquisition whose result a driver looks at.
AllFaults ==
  [d \in Drivers |->
     {"PH7", "PI0", "mem", "region", "cdev", "cdev0", "cdev1", "class", "node",
      "node0", "node1", "map", "chrdev"}]

\* Of the two drivers on the I2C bus, which are alike, one is unbound and one is not.
Unbound == {"ap3216c"}
=============================================================================
