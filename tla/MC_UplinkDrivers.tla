-------------------------- MODULE MC_UplinkDrivers --------------------------
EXTENDS UplinkDrivers

AllDrivers == {"virtio", "rdma", "vmxnet3"}
=============================================================================
